---------------------------- MODULE Spec2Model ----------------------------
(***************************************************************************)
(* h2tunnel (src/src/h2tunnel.ts, lines 598-1005): TunnelServer,           *)
(* TunnelClient and the TCP <-> HTTP/2 bridge of AbstractTunnel.addStream. *)
(*                                                                         *)
(* One action is one callback of the Node.js event loop, run to            *)
(* completion.  destroy() sets `destroyed` (and `errored`) at once; the    *)
(* 'close' listeners run later, as an action of their own.                 *)
(***************************************************************************)
EXTENDS Integers, Sequences, FiniteSets, TLC

\* ------------------------------------------------------------------ bounds
MaxConns == 2
MaxTunnels == 3
MaxDials == 2
MaxClients == 2
MaxChunks == 2
MaxStarts == 2
MaxStops == 2
MaxGarbage == 1
LogCap == 2

Conns == 1..MaxConns
Tunnels == 1..MaxTunnels
\* The tunnel connections that a specification bounded by MaxDials dials.
DialledTunnels == 1..MaxDials
Clients == 1..MaxClients
Ends == {"server", "client"}

\* The endpoints as owners of registries: 0 is the server, k is client k.
Eps == 0..MaxClients

\* The listeners of the server that bind a configured port.
PortListeners == {"proxyServer", "tunnelServer"}
AllListeners == {"muxServer"} \cup PortListeners

Other(e) == IF e = "server" THEN "client" ELSE "server"

\* ---------------------------------------------------------------- messages
\* What travels on a TCP connection or on an HTTP/2 stream: a chunk (chunk n
\* is the n-th one its sender wrote), FIN / END_STREAM, RST / RST_STREAM, and
\* the HEADERS frame that opens a stream.
Data(n) == [k |-> "data", n |-> n]
Fin == [k |-> "fin", n |-> 0]
Rst == [k |-> "rst", n |-> 0]
Hdr == [k |-> "hdr", n |-> 0]

RECURSIVE Chunks(_)
Chunks(s) ==
  IF s = << >> THEN << >>
  ELSE IF Head(s).k = "data" THEN << Head(s).n >> \o Chunks(Tail(s))
  ELSE Chunks(Tail(s))

HasKind(s, kind) == \E i \in 1..Len(s) : s[i].k = kind

IsPrefix(s, t) == Len(s) <= Len(t) /\ \A i \in 1..Len(s) : s[i] = t[i]

UpTo(n) == [i \in 1..n |-> i]

\* ------------------------------------------------------------------- state
VARIABLES
  sListening,     \* server: mux, proxy and tunnel listeners are listening
  sAborted,       \* server: AbstractTunnel.aborted
  sActiveSession, \* server: AbstractTunnel.activeSession (0 = null)
  sTunnelSocket,  \* server: AbstractTunnel.tunnelSocket (0 = null)
  cPhase,         \* client k: "stopped" | "starting" | "running" | "crashed"
  cAborted,       \* client k: AbstractTunnel.aborted
  cRestart,       \* client k: the reconnect timers that are pending, each
                  \*   named by the tunnel whose close scheduled it
  cRestartTimeout,\* client k: this.restartTimeout (0: null), the timer
                  \*   scheduled last, pending or not
  cTunnelSocket,  \* client k: AbstractTunnel.tunnelSocket (0 = null)
  nextTun,        \* next tunnel (TLS connection) to be dialled
  tOwner,         \* tunnel t: the client that dialled it
  cTls,           \* tunnel t: the client's tls.TLSSocket
  sTls,           \* tunnel t: the server's tls.TLSSocket ("ended": end() was
                  \*   called on it, the peer has not closed its end yet)
  cSess,          \* tunnel t: the client's ServerHttp2Session
  sSess,          \* tunnel t: the server's ClientHttp2Session
  nextConn,       \* next proxy connection to be accepted
  sessOf,         \* connection c: the tunnel whose session carries it
  sock,           \* endpoint e, connection c: the net.Socket
  strm,           \* endpoint e, connection c: the Http2Stream
  bridged,        \* endpoint e, connection c: addStream(socket, stream) ran
  activeStreams,  \* endpoint e: keys of AbstractTunnel.activeStreams
  tcpIn,          \* endpoint e, connection c: bytes on their way to the socket
  tcpOut,         \* endpoint e, connection c: what the socket sent its peer
  h2In,           \* endpoint e, connection c: frames on their way to the stream
  h2Sent,         \* endpoint e, connection c: chunks written to the stream
  peer,           \* endpoint e, connection c: the browser / the origin
  closeables,     \* endpoint ep: Stoppable.closeables
  destroyables,   \* endpoint ep: Stoppable.destroyables
  stopWait,       \* endpoint ep: per stop() call that has not resolved, the
                  \*   resources whose 'close' it still waits for
  stopsDone,      \* endpoint ep: number of stop() calls that resolved
  starts,         \* endpoint ep: number of start() calls
  closing,        \* endpoint ep: listeners that were close()d and have not
                  \*   emitted 'close'
  sHandshake,     \* server: tunnels whose TCP connection the tunnel listener
                  \*   accepted and whose TLS handshake is under way
  garbage,        \* server: connections to the tunnel listener that are not
                  \*   TLS (n dialled so far, open: one is connected)
  sCrashed,       \* server: a handler threw (uncaught exception)
  sMux,           \* tunnel t: the loopback socket the server's mux listener accepted
  cMux,           \* tunnel t: the loopback socket the client dialled to its mux server
  waiter,         \* endpoint ep: a waitUntilConnected() call
  sBind,          \* server, listener l: "ok" | "inUse" (the bind of the last
                  \*   start() failed, 'error' not yet emitted) | "error" (emitted)
                  \*   | "closed" (the listener closed without stop())
  logged,         \* endpoint e, connection c: the lines logged as `stream<id> ...`
  streamId,       \* endpoint e, connection c: the streamId addStream gave (-1: none)
  ping,           \* endpoint e, tunnel t: the keepalive of the tunnel's session,
                  \*   "none" | "timer" (armed) | "sent" (PING not yet acknowledged)
  pingTimeout,    \* client k: the tunnel whose keepalive timer is this.pingTimeout
                  \*   (0: null)
  sListen,        \* server, listener l: "off" | "lookup" (listen() called, not
                  \*   bound yet) | "bound" (server.listening is true, 'listening'
                  \*   not yet emitted) | "on" ('listening' was emitted)
  listenHooks,    \* server, listener l: the once('listening', hook) listeners not
                  \*   yet run, each named by the start() that added it
  hookListening,  \* server: the start() calls whose `listening` flag is true
  listeningLines, \* server: "listening" lines logged since the last start()
  timeouts,       \* endpoint ep: Stoppable.timeouts, the registry of timers
  muxOnce,        \* server: the tunnels whose muxServer.once('connection')
                  \*   listener has not run yet
  muxDialled,     \* server: the tunnels in the order in which http2.connect()
                  \*   dialled the loopback connection of their session
  sPiped          \* server, tunnel t: the tunnel sockets that the loopback socket
                  \*   of the session of tunnel t was piped to

vars == << sListening, sAborted, sActiveSession, sTunnelSocket, cPhase,
           cAborted, cRestart, cRestartTimeout, cTunnelSocket, nextTun, tOwner, cTls, sTls,
           cSess, sSess, nextConn, sessOf, sock, strm, bridged,
           activeStreams, tcpIn, tcpOut, h2In, h2Sent, peer,
           closeables, destroyables, stopWait, stopsDone, starts, closing,
           sHandshake, garbage, sCrashed, sMux, cMux, waiter,
           sBind, logged, streamId, ping, pingTimeout,
           sListen, listenHooks, hookListening, listeningLines, timeouts,
           muxOnce, muxDialled, sPiped >>

serverVars == << sListening, sAborted, sActiveSession, sTunnelSocket >>
clientVars == << cPhase, cAborted, cRestart, cRestartTimeout, cTunnelSocket >>
tunnelVars == << nextTun, tOwner, cTls, sTls, cSess, sSess >>
connVars == << nextConn, sessOf, sock, strm, bridged, activeStreams,
               tcpIn, tcpOut, h2In, h2Sent, peer >>
regVars == << closeables, destroyables, stopWait >>
lifeVars == << stopsDone, starts, closing, sHandshake, garbage, sCrashed, waiter >>
onceVars == << muxOnce, muxDialled, sPiped >>
muxVars == << sMux, cMux, onceVars >>
listenVars == << sListen, listenHooks, hookListening, listeningLines >>
extVars == << sBind, logged, streamId, ping, pingTimeout, listenVars, timeouts >>

\* A stream.Duplex (net.Socket or Http2Stream) as the bridge reads it.
\*   st      "none" | "connecting" | "open" | "destroyed" | "closed"
\*           ("destroyed": destroy() ran, 'close' not yet emitted)
\*   re      'end' was emitted            we  writableEnded
\*   errored `errored` is set             forced  resetAndDestroy() or
\*                                                destroy(new Error()) was called on it
NoDuplex ==
  [st |-> "none", re |-> FALSE, we |-> FALSE, errored |-> FALSE, forced |-> FALSE]
OpenDuplex == [NoDuplex EXCEPT !.st = "open"]

Destroyed(d) == d.st \in {"destroyed", "closed"}
Alive(d) == d.st \in {"connecting", "open"}

\* An Http2Session: st is "none" | "open" | "destroyed" | "closed" ("destroyed":
\* destroy() ran, 'close' not yet emitted); session.destroyed is true in both.
NoSession == [st |-> "none", ready |-> FALSE, errored |-> FALSE]
NoPeer == [st |-> "none", n |-> 0]

\* A timer made by Stoppable.setTimeout: the reconnect timer scheduled by the
\* close of tunnel t, or the keepalive timer of the session of tunnel t.
Timer(kind, t) == << kind, t >>

\* this.timeouts.add(timeout) / this.timeouts.delete(timeout)
TimeoutsAdd(reg, ep, x) == [reg EXCEPT ![ep] = @ \cup {x}]
TimeoutsDelete(reg, ep, x) == [reg EXCEPT ![ep] = @ \ {x}]

\* The lines logged for one stream of one endpoint, each counted up to
\* LogCap; late: a line was logged after `closed`.
NoLines ==
  [sendFin |-> 0, recvFin |-> 0, sendRst |-> 0, recvRst |-> 0, err |-> 0,
   closed |-> 0, late |-> FALSE]

Bump(n) == IF n < LogCap THEN n + 1 ELSE n

\* this.log(`stream${streamId} ...`): the lines of `kinds` are logged for a
\* stream whose lines so far are l.
LogLines(l, kinds) ==
  [sendFin |-> IF "sendFin" \in kinds THEN Bump(l.sendFin) ELSE l.sendFin,
   recvFin |-> IF "recvFin" \in kinds THEN Bump(l.recvFin) ELSE l.recvFin,
   sendRst |-> IF "sendRst" \in kinds THEN Bump(l.sendRst) ELSE l.sendRst,
   recvRst |-> IF "recvRst" \in kinds THEN Bump(l.recvRst) ELSE l.recvRst,
   err |-> IF "err" \in kinds THEN Bump(l.err) ELSE l.err,
   closed |-> IF "closed" \in kinds THEN Bump(l.closed) ELSE l.closed,
   late |-> l.late \/ (kinds # {} /\ l.closed > 0)]

\* A tunnel socket that destroy() still acts on.
TlsLive(x) == x \in {"open", "ended"}

\* session.destroyed
SessDestroyed(s) == s.st \in {"destroyed", "closed"}

Init ==
  /\ sListening = FALSE
  /\ sAborted = FALSE
  /\ sActiveSession = 0
  /\ sTunnelSocket = 0
  /\ cPhase = [k \in Clients |-> "stopped"]
  /\ cAborted = [k \in Clients |-> FALSE]
  /\ cRestart = [k \in Clients |-> {}]
  /\ cRestartTimeout = [k \in Clients |-> 0]
  /\ cTunnelSocket = [k \in Clients |-> 0]
  /\ nextTun = 1
  /\ tOwner = [t \in Tunnels |-> 0]
  /\ cTls = [t \in Tunnels |-> "none"]
  /\ sTls = [t \in Tunnels |-> "none"]
  /\ cSess = [t \in Tunnels |-> NoSession]
  /\ sSess = [t \in Tunnels |-> NoSession]
  /\ nextConn = 1
  /\ sessOf = [c \in Conns |-> 0]
  /\ sock = [e \in Ends |-> [c \in Conns |-> NoDuplex]]
  /\ strm = [e \in Ends |-> [c \in Conns |-> NoDuplex]]
  /\ bridged = [e \in Ends |-> [c \in Conns |-> FALSE]]
  /\ activeStreams = [e \in Ends |-> {}]
  /\ tcpIn = [e \in Ends |-> [c \in Conns |-> << >>]]
  /\ tcpOut = [e \in Ends |-> [c \in Conns |-> << >>]]
  /\ h2In = [e \in Ends |-> [c \in Conns |-> << >>]]
  /\ h2Sent = [e \in Ends |-> [c \in Conns |-> << >>]]
  /\ peer = [e \in Ends |-> [c \in Conns |-> NoPeer]]
  /\ closeables = [ep \in Eps |-> {}]
  /\ destroyables = [ep \in Eps |-> {}]
  /\ stopWait = [ep \in Eps |-> << >>]
  /\ stopsDone = [ep \in Eps |-> 0]
  /\ starts = [ep \in Eps |-> 0]
  /\ closing = [ep \in Eps |-> {}]
  /\ sHandshake = {}
  /\ garbage = [n |-> 0, open |-> FALSE]
  /\ sCrashed = FALSE
  /\ sMux = [t \in Tunnels |-> "none"]
  /\ cMux = [t \in Tunnels |-> "none"]
  /\ waiter = [ep \in Eps |-> "none"]
  /\ sBind = [l \in PortListeners |-> "ok"]
  /\ logged = [e \in Ends |-> [c \in Conns |-> NoLines]]
  /\ streamId = [e \in Ends |-> [c \in Conns |-> -1]]
  /\ ping = [e \in Ends |-> [t \in Tunnels |-> "none"]]
  /\ pingTimeout = [k \in Clients |-> 0]
  /\ sListen = [l \in AllListeners |-> "off"]
  /\ listenHooks = [l \in AllListeners |-> {}]
  /\ hookListening = {}
  /\ listeningLines = 0
  /\ timeouts = [ep \in Eps |-> {}]
  /\ muxOnce = {}
  /\ muxDialled = << >>
  /\ sPiped = [t \in Tunnels |-> {}]

\* ------------------------------------------------------------------ Stoppable
\* The resources an endpoint registers: its listeners (closeables) and its
\* sockets, streams and sessions (destroyables).
Res(kind, i) == [r |-> kind, i |-> i]

Listeners(ep) ==
  IF ep = 0
  THEN {Res("muxServer", 0), Res("proxyServer", 0), Res("tunnelServer", 0)}
  ELSE {Res("muxServer", 0)}

\* The endpoint that owns the socket and the stream of connection c at end e.
EpOf(e, c) == IF e = "server" THEN 0 ELSE tOwner[sessOf[c]]

\* addCloseable / addDestroyable: this.closeables.add(x), this.destroyables.add(x)
Register(reg, ep, rs) == [reg EXCEPT ![ep] = @ \cup rs]

\* Faulty variant: the entry stays in the registry
DeregisterNot(reg, ep, r) == reg

\* x.on("close", () => this.closeables.delete(x)), likewise for destroyables
Deregister(reg, ep, r) == [reg EXCEPT ![ep] = @ \ {r}]

\* closeable.on("close", resolve): the stop() calls that wait for r see it close.
Awaited(waits, ep, r) ==
  [waits EXCEPT ![ep] = [i \in DOMAIN @ |-> @[i] \ {r}]]

\* A resource of endpoint ep emits 'close'.
EmitClose(ep, r) ==
  /\ closeables' = Deregister(closeables, ep, r)
  /\ destroyables' = Deregister(destroyables, ep, r)
  /\ stopWait' = Awaited(stopWait, ep, r)


\* ------------------------------------------------- sessions and their streams
\* Http2Session.destroy(error): the session and every stream still open on it
\* are destroyed at once (closeSession -> stream.destroy(error)); a destroyed
\* Http2Stream has its writable side ended (closeStream -> stream.end()).
\* Faulty variant: the error given to destroy() is dropped
DestroyStreamNoError(d, err) ==
  IF d.st = "open" THEN [d EXCEPT !.st = "destroyed", !.we = TRUE] ELSE d

DestroyStream(d, err) ==
  IF d.st = "open"
  THEN [d EXCEPT !.st = "destroyed", !.we = TRUE, !.errored = @ \/ err]
  ELSE d

\* Faulty variant: the session is left as it is
DestroySessionNot(s, err) == s

DestroySession(s, err) ==
  IF s.st = "open" THEN [s EXCEPT !.st = "destroyed", !.errored = err] ELSE s

StreamsAfterSessionDestroy(e, t, err) ==
  [c \in Conns |->
     IF sessOf[c] = t THEN DestroyStream(strm[e][c], err) ELSE strm[e][c]]

\* ------------------------------------------------------------ start (server)
\* Every hook that an earlier start() attached has run.
NoHooks == \A l \in AllListeners : listenHooks[l] = {}

\* TunnelServer.isListening(): server.listening of the three listeners
IsListening(ls) == \A l \in AllListeners : ls[l] \in {"bound", "on"}

\* TunnelServer.start() together with the three 'listening' events that
\* follow it, when no hook of an earlier start() is left: aborted = false, the
\* three listeners listen, and the hook logs "listening" at the event that
\* finds all three listening.
ServerStart ==
  /\ ~sListening
  /\ stopWait[0] = << >>
  /\ starts[0] < MaxStarts
  /\ sListening' = TRUE
  /\ sAborted' = FALSE
  /\ closeables' = Register(closeables, 0, Listeners(0))
  /\ starts' = [starts EXCEPT ![0] = @ + 1]
  /\ sBind' = [l \in PortListeners |-> "ok"]
  /\ NoHooks
  /\ sListen' = [l \in AllListeners |-> "on"]
  /\ hookListening' = hookListening \cup {starts[0] + 1}
  /\ listeningLines' = 1
  /\ UNCHANGED listenHooks
  /\ UNCHANGED << sActiveSession, sTunnelSocket >>
  /\ UNCHANGED << clientVars, tunnelVars, connVars, muxVars >>
  /\ UNCHANGED << destroyables, stopWait, stopsDone, closing, sHandshake,
                  garbage, sCrashed, waiter >>
  /\ UNCHANGED << logged, streamId, ping, pingTimeout >>
  /\ UNCHANGED timeouts

\* TunnelServer.start() while the ports of the listeners in `inUse` are taken
\* (EADDRINUSE): the three listeners are registered, those that can bind
\* listen, each of the others will emit 'error'.
ServerStartInUse(inUse) ==
  /\ inUse # {}
  /\ ~sListening
  /\ stopWait[0] = << >>
  /\ starts[0] < MaxStarts
  /\ sListening' = TRUE
  /\ sAborted' = FALSE
  /\ closeables' = Register(closeables, 0, Listeners(0))
  /\ starts' = [starts EXCEPT ![0] = @ + 1]
  /\ sBind' = [l \in PortListeners |-> IF l \in inUse THEN "inUse" ELSE "ok"]
  /\ NoHooks
  /\ sListen' = [l \in AllListeners |-> IF l \in inUse THEN "off" ELSE "on"]
  /\ listenHooks' = [l \in AllListeners |->
                       IF l \in inUse THEN {starts[0] + 1} ELSE {}]
  /\ listeningLines' = 0
  /\ UNCHANGED hookListening
  /\ UNCHANGED << sActiveSession, sTunnelSocket >>
  /\ UNCHANGED << clientVars, tunnelVars, connVars, muxVars >>
  /\ UNCHANGED << destroyables, stopWait, stopsDone, closing, sHandshake,
                  garbage, sCrashed, waiter >>
  /\ UNCHANGED << logged, streamId, ping, pingTimeout >>
  /\ UNCHANGED timeouts

\* proxyServer.on("error") / tunnelServer.on("error"): the error is logged.
ServerListenError(l) ==
  /\ sBind[l] = "inUse"
  /\ sBind' = [sBind EXCEPT ![l] = "error"]
  /\ UNCHANGED << serverVars, clientVars, tunnelVars, connVars >>
  /\ UNCHANGED << regVars, lifeVars, muxVars >>
  /\ UNCHANGED << logged, streamId, ping, pingTimeout, listenVars >>
  /\ UNCHANGED timeouts

\* TunnelServer.start() up to its return: aborted = false, the listeners are
\* registered, `listening` is a fresh false flag and hook is attached once to
\* each listener; muxServer.listen(0) binds at once, the two listen(port, ip)
\* calls bind after their address lookup.
ServerStartCall ==
  /\ ~sListening
  /\ \A l \in AllListeners : sListen[l] = "off"
  /\ closeables[0] = {}
  /\ stopWait[0] = << >>
  /\ starts[0] < MaxStarts
  /\ sAborted' = FALSE
  /\ closeables' = Register(closeables, 0, Listeners(0))
  /\ starts' = [starts EXCEPT ![0] = @ + 1]
  /\ sBind' = [l \in PortListeners |-> "ok"]
  /\ sListen' = [l \in AllListeners |-> IF l = "muxServer" THEN "bound" ELSE "lookup"]
  /\ listenHooks' = [l \in AllListeners |-> listenHooks[l] \cup {starts[0] + 1}]
  /\ listeningLines' = 0
  /\ UNCHANGED << sListening, sActiveSession, sTunnelSocket, hookListening >>
  /\ UNCHANGED << clientVars, tunnelVars, connVars, muxVars >>
  /\ UNCHANGED << destroyables, stopWait, stopsDone, closing, sHandshake,
                  garbage, sCrashed, waiter >>
  /\ UNCHANGED << logged, streamId, ping, pingTimeout >>
  /\ UNCHANGED timeouts

\* The address lookup of listen(port, ip) is over and the listener is bound:
\* server.listening is true, its 'listening' event is queued.
ServerListenBound(l) ==
  /\ sListen[l] = "lookup"
  /\ sListen' = [sListen EXCEPT ![l] = "bound"]
  /\ sListening' = IsListening(sListen')
  /\ UNCHANGED << sAborted, sActiveSession, sTunnelSocket >>
  /\ UNCHANGED << clientVars, tunnelVars, connVars >>
  /\ UNCHANGED << regVars, lifeVars, muxVars >>
  /\ UNCHANGED << sBind, logged, streamId, ping, pingTimeout >>
  /\ UNCHANGED << listenHooks, hookListening, listeningLines >>
  /\ UNCHANGED timeouts

\* The hooks of listener l that log when they run: those whose `listening`
\* flag is false, when isListening() is true.
HooksThatLog(l) ==
  IF IsListening(sListen) THEN listenHooks[l] \ hookListening ELSE {}

\* A listener emits 'listening': every hook attached to it with once() runs
\* and is detached; a hook whose flag is false and that finds isListening()
\* sets its flag, logs "listening" and emits 'listening' on listeningEvent.
ServerListeningEvent(l) ==
  /\ sListen[l] = "bound"
  /\ sListen' = [sListen EXCEPT ![l] = "on"]
  /\ listenHooks' = [listenHooks EXCEPT ![l] = {}]
  /\ hookListening' = hookListening \cup HooksThatLog(l)
  /\ listeningLines' = listeningLines + Cardinality(HooksThatLog(l))
  /\ UNCHANGED << serverVars, clientVars, tunnelVars, connVars >>
  /\ UNCHANGED << regVars, lifeVars, muxVars >>
  /\ UNCHANGED << sBind, logged, streamId, ping, pingTimeout >>
  /\ UNCHANGED timeouts

\* The proxy listener / the tunnel listener accepts connections.
ProxyListening == sListening /\ sBind["proxyServer"] = "ok"
TunnelListening == sListening /\ sBind["tunnelServer"] = "ok"

\* ------------------------------------------------------------ tunnel (client)
\* TunnelClient.start(): aborted = false, muxServer.listen(0).  The clients
\* are alike, so they are started in the order of their numbers.
ClientStart(k) ==
  /\ cPhase[k] = "stopped"
  /\ \A j \in Clients : j < k => cPhase[j] # "stopped"
  /\ stopWait[k] = << >>
  /\ starts[k] < MaxStarts
  /\ cPhase' = [cPhase EXCEPT ![k] = "starting"]
  /\ cAborted' = [cAborted EXCEPT ![k] = FALSE]
  /\ closeables' = Register(closeables, k, Listeners(k))
  /\ starts' = [starts EXCEPT ![k] = @ + 1]
  /\ UNCHANGED << cRestart, cRestartTimeout, cTunnelSocket >>
  /\ UNCHANGED << serverVars, tunnelVars, connVars, muxVars >>
  /\ UNCHANGED << destroyables, stopWait, stopsDone, closing, sHandshake,
                  garbage, sCrashed, waiter >>
  /\ UNCHANGED extVars

\* Faulty variant: the next attempt is armed when dialling, not when the socket closes
TimersAfterDialRearm(pending, k) == pending \cup {nextTun}

\* if (this.restartTimeout) clearTimeout(this.restartTimeout)
TimersAfterDial(pending, k) == pending \ {cRestartTimeout[k]}

\* if (this.pingTimeout) clearTimeout(this.pingTimeout)
ClearPingTimeout(p, k) ==
  IF pingTimeout[k] # 0 /\ p["client"][pingTimeout[k]] = "timer"
  THEN [p EXCEPT !["client"][pingTimeout[k]] = "none"]
  ELSE p

\* TunnelClient.startTunnel(), called with the timers `pending`: the reconnect
\* timer is cleared and a fresh TLS socket is dialled together with its loopback
\* mux socket; the TLS socket becomes this.tunnelSocket.  The model dials
\* `cap` sockets at most.
StartTunnelUpTo(k, pending, cap) ==
  /\ nextTun <= cap
  /\ cRestart' = [cRestart EXCEPT ![k] = TimersAfterDial(pending, k)]
  /\ UNCHANGED cRestartTimeout
  /\ cTunnelSocket' = [cTunnelSocket EXCEPT ![k] = nextTun]
  /\ tOwner' = [tOwner EXCEPT ![nextTun] = k]
  /\ cTls' = [cTls EXCEPT ![nextTun] = "open"]
  /\ cMux' = [cMux EXCEPT ![nextTun] = "open"]
  /\ destroyables' =
       Register(destroyables, k, {Res("tls", nextTun), Res("mux", nextTun)})
  /\ nextTun' = nextTun + 1
  /\ ping' = ClearPingTimeout(ping, k)
  /\ UNCHANGED << sTls, cSess, sSess, sMux, closeables, stopWait, lifeVars >>
  /\ UNCHANGED << listenVars, sBind, logged, streamId, pingTimeout >>
  /\ UNCHANGED onceVars

StartTunnel(k, pending) == StartTunnelUpTo(k, pending, MaxDials)

\* muxServer 'listening' -> startTunnel().
ClientMuxListening(k) ==
  /\ cPhase[k] = "starting"
  /\ cPhase' = [cPhase EXCEPT ![k] = "running"]
  /\ StartTunnel(k, cRestart[k])
  /\ UNCHANGED << cAborted, serverVars, connVars >>
  /\ UNCHANGED timeouts

\* A reconnect timer fires (it is pending no more): log "restarting",
\* startTunnel().
ClientRestartTimerUpTo(k, cap) ==
  /\ \E x \in cRestart[k] :
       /\ StartTunnelUpTo(k, cRestart[k] \ {x}, cap)
       /\ timeouts' = TimeoutsDelete(timeouts, k, Timer("restart", x))
  /\ UNCHANGED << cPhase, cAborted, serverVars, connVars >>

ClientRestartTimer(k) == ClientRestartTimerUpTo(k, MaxDials)

\* muxServer.once('session'): the HTTP/2 server session of the dialled tunnel.
ClientSession(t) ==
  /\ cMux[t] = "open"
  /\ cSess[t].st = "none"
  /\ cSess' = [cSess EXCEPT ![t] = [NoSession EXCEPT !.st = "open"]]
  /\ destroyables' = Register(destroyables, tOwner[t], {Res("sess", t)})
  /\ UNCHANGED << nextTun, tOwner, cTls, sTls, sSess >>
  /\ UNCHANGED << serverVars, clientVars, connVars >>
  /\ UNCHANGED << closeables, stopWait, lifeVars, muxVars >>
  /\ UNCHANGED extVars

\* this.connectedEvent.emit("connected"): a pending waitUntilConnected() resolves.
EmitConnected(w, ep) ==
  [w EXCEPT ![ep] = IF @ = "waiting" THEN "resolved" ELSE @]

\* Faulty variant: the client's session reports 'remoteSettings' by itself
SettingsArrivedAlways(t) == TRUE

\* The SETTINGS frame that triggers 'remoteSettings' on the client is written
\* by the server's session into its mux socket and travels over the tunnel.
SettingsArrived(t) ==
  /\ sSess[t].st # "none"
  /\ sMux[t] # "none"
  /\ t \in sPiped[t]

\* session 'remoteSettings' on the client: the server's SETTINGS arrived;
\* ping() arms the first keepalive timer, "connected ..." is logged and
\* 'connected' emitted.
ClientRemoteSettings(t) ==
  /\ cTls[t] = "open"
  /\ cSess[t].st = "open" /\ ~cSess[t].ready
  /\ SettingsArrived(t)
  /\ cSess' = [cSess EXCEPT ![t].ready = TRUE]
  /\ waiter' = EmitConnected(waiter, tOwner[t])
  /\ ping' = [ping EXCEPT !["client"][t] = "timer"]
  /\ pingTimeout' = [pingTimeout EXCEPT ![tOwner[t]] = t]
  /\ timeouts' = TimeoutsAdd(timeouts, tOwner[t], Timer("ping", t))
  /\ UNCHANGED << nextTun, tOwner, cTls, sTls, sSess >>
  /\ UNCHANGED << serverVars, clientVars, connVars >>
  /\ UNCHANGED << regVars, muxVars, stopsDone, starts, closing, sHandshake,
                  garbage, sCrashed >>
  /\ UNCHANGED << listenVars, sBind, logged, streamId >>

\* The keepalive timer of a client session fires (timeout * 0.5 after it was
\* armed): if (!session.destroyed) session.ping(...).
ClientPingTimer(t) ==
  /\ ping["client"][t] = "timer"
  /\ ping' = [ping EXCEPT !["client"][t] =
                IF SessDestroyed(cSess[t]) THEN "none" ELSE "sent"]
  /\ timeouts' = TimeoutsDelete(timeouts, tOwner[t], Timer("ping", t))
  /\ UNCHANGED << serverVars, clientVars, tunnelVars, connVars >>
  /\ UNCHANGED << regVars, lifeVars, muxVars >>
  /\ UNCHANGED << listenVars, sBind, logged, streamId, pingTimeout >>

\* The PING of a client session is acknowledged by the peer: the callback gets
\* no error and calls ping(), which arms the next keepalive timer.
ClientPingAck(t) ==
  /\ ping["client"][t] = "sent"
  /\ ~SessDestroyed(cSess[t])
  /\ sSess[t].st # "none"
  /\ ping' = [ping EXCEPT !["client"][t] = "timer"]
  /\ pingTimeout' = [pingTimeout EXCEPT ![tOwner[t]] = t]
  /\ timeouts' = TimeoutsAdd(timeouts, tOwner[t], Timer("ping", t))
  /\ UNCHANGED << serverVars, clientVars, tunnelVars, connVars >>
  /\ UNCHANGED << regVars, lifeVars, muxVars >>
  /\ UNCHANGED << listenVars, sBind, logged, streamId >>

\* The session was destroyed with its PING outstanding: the callback gets
\* ERR_HTTP2_PING_CANCEL and arms nothing.
ClientPingCancel(t) ==
  /\ ping["client"][t] = "sent"
  /\ SessDestroyed(cSess[t])
  /\ ping' = [ping EXCEPT !["client"][t] = "none"]
  /\ UNCHANGED << serverVars, clientVars, tunnelVars, connVars >>
  /\ UNCHANGED << regVars, lifeVars, muxVars >>
  /\ UNCHANGED << listenVars, sBind, logged, streamId, pingTimeout >>
  /\ UNCHANGED timeouts

\* Faulty variant: the socket is gone without a 'close' event
TimeoutDestroyQuiet(tls, t) == [tls EXCEPT ![t] = "closed"]

\* tunnelSocket.on("timeout", () => tunnelSocket.destroy(new Error()))
TimeoutDestroy(tls, t) == [tls EXCEPT ![t] = "destroyed"]

\* The TLS socket reports 'timeout' (-> destroy(new Error())) or a network
\* error: it is destroyed, its 'close' follows.
ClientTunnelError(t) ==
  /\ cTls[t] = "open"
  /\ cTls' = TimeoutDestroy(cTls, t)
  /\ UNCHANGED << nextTun, tOwner, sTls, cSess, sSess >>
  /\ UNCHANGED << serverVars, clientVars, connVars >>
  /\ UNCHANGED << regVars, lifeVars, muxVars >>
  /\ UNCHANGED extVars

\* No byte travels on the tunnel of attempt t any more: the server accepted
\* it, and the loopback socket of its session was handed to no listener of
\* the tunnel, so nothing reads or writes the server's end.
TunnelIdle(t) ==
  /\ cTls[t] = "open"
  /\ sTls[t] = "open"
  /\ sMux[t] # "none"
  /\ t \notin sPiped[t]

\* tls.connect({timeout}): the idle tunnel socket emits 'timeout' after
\* options.timeout without traffic, and the handler destroys it.
ClientTunnelTimeout(t) ==
  /\ TunnelIdle(t)
  /\ ClientTunnelError(t)

\* The server's end of the tunnel is gone: the client's socket ends.
ClientTunnelPeerClosed(t) ==
  /\ cTls[t] = "open"
  /\ sTls[t] \in {"ended", "destroyed", "closed"}
  /\ cTls' = [cTls EXCEPT ![t] = "destroyed"]
  /\ UNCHANGED << nextTun, tOwner, sTls, cSess, sSess >>
  /\ UNCHANGED << serverVars, clientVars, connVars >>
  /\ UNCHANGED << regVars, lifeVars, muxVars >>
  /\ UNCHANGED extVars

\* Faulty variant: no timer is scheduled
ScheduleRestartNever(timers, t) == timers

\* if (!this.aborted) this.restartTimeout = this.setTimeout(...)
ScheduleRestart(timers, t) ==
  IF cAborted[tOwner[t]] THEN timers ELSE [timers EXCEPT ![tOwner[t]] = @ \cup {t}]

\* muxSocket.destroy()
DestroyMux(m) == IF m = "open" THEN "destroyed" ELSE m

\* tunnelSocket 'close' on the client: "disconnected", the mux socket is
\* destroyed, the reconnect timer is scheduled unless aborted, and the session
\* (when one was created for this socket) is destroyed with an error.
ClientTunnelClose(t) ==
  /\ cTls[t] = "destroyed"
  /\ cTls' = [cTls EXCEPT ![t] = "closed"]
  /\ cMux' = [cMux EXCEPT ![t] = DestroyMux(@)]
  /\ EmitClose(tOwner[t], Res("tls", t))
  /\ UNCHANGED << sMux, lifeVars >>
  /\ cRestart' = ScheduleRestart(cRestart, t)
  /\ cRestartTimeout' = [cRestartTimeout EXCEPT ![tOwner[t]] =
                           IF cAborted[tOwner[t]] THEN @ ELSE t]
  /\ cSess' = [cSess EXCEPT ![t] = DestroySession(@, TRUE)]
  /\ strm' = [strm EXCEPT !["client"] =
                IF cSess[t].st = "open"
                THEN StreamsAfterSessionDestroy("client", t, TRUE)
                ELSE @]
  /\ UNCHANGED << nextTun, tOwner, sTls, sSess >>
  /\ timeouts' = IF cAborted[tOwner[t]] THEN timeouts
                 ELSE TimeoutsAdd(timeouts, tOwner[t], Timer("restart", t))
  /\ UNCHANGED << cPhase, cAborted, cTunnelSocket, serverVars >>
  /\ UNCHANGED << nextConn, sessOf, sock, bridged, activeStreams,
                  tcpIn, tcpOut, h2In, h2Sent, peer >>
  /\ UNCHANGED << sBind, logged, streamId, ping, pingTimeout, listenVars >>
  /\ UNCHANGED onceVars

\* ------------------------------------------------------------ tunnel (server)
\* Faulty variant: the previous tunnel socket is not destroyed
DestroyPriorNot(tls, prior) == tls

\* this.tunnelSocket?.destroy(): destroy() of a socket that is already
\* destroyed changes nothing.
DestroyPrior(tls, prior) ==
  IF prior # 0 /\ TlsLive(tls[prior])
  THEN [tls EXCEPT ![prior] = "destroyed"]
  ELSE tls

\* The tunnel listener accepts the TCP connection of a dialled tunnel; the TLS
\* handshake starts.
ServerTunnelAccept(t) ==
  /\ TunnelListening
  /\ cTls[t] = "open"
  /\ sTls[t] = "none"
  /\ t \notin sHandshake
  /\ sHandshake' = sHandshake \cup {t}
  /\ UNCHANGED << serverVars, clientVars, tunnelVars, connVars >>
  /\ UNCHANGED << regVars, muxVars, stopsDone, starts, closing, garbage,
                  sCrashed, waiter >>
  /\ UNCHANGED extVars

\* Faulty variant: the mux listener has no address after a restart
MuxServerAddressFirstStart == sListening /\ starts[0] = 1

\* this.muxServer.address(): null once muxServer.close() was called.
MuxServerAddress == sListening

\* tunnelServer 'secureConnection': the latest tunnel kills the previous one,
\* becomes this.tunnelSocket, and http2.connect() creates its session.
\* When the handshake that was in flight at stop() completes, muxServer is
\* closed, muxServer.address() is null and `address.family` throws: the tunnel
\* socket is registered, no session is created, the exception is uncaught.
ServerSecureConnection(t) ==
  /\ t \in sHandshake
  /\ cTls[t] = "open"
  /\ sTls[t] = "none"
  /\ sHandshake' = sHandshake \ {t}
  /\ sTls' = [DestroyPrior(sTls, sTunnelSocket) EXCEPT ![t] = "open"]
  /\ sTunnelSocket' = t
  /\ IF MuxServerAddress
     THEN /\ sSess' = [sSess EXCEPT ![t] = [NoSession EXCEPT !.st = "open"]]
          /\ destroyables' =
               Register(destroyables, 0, {Res("tls", t), Res("sess", t)})
          /\ muxOnce' = muxOnce \cup {t}
          /\ muxDialled' = Append(muxDialled, t)
          /\ UNCHANGED sCrashed
     ELSE /\ destroyables' = Register(destroyables, 0, {Res("tls", t)})
          /\ sCrashed' = TRUE
          /\ UNCHANGED << sSess, muxOnce, muxDialled >>
  /\ UNCHANGED << nextTun, tOwner, cTls, cSess >>
  /\ UNCHANGED << sListening, sAborted, sActiveSession, clientVars, connVars >>
  /\ UNCHANGED << closeables, stopWait, sMux, cMux, sPiped, stopsDone, starts,
                  closing, garbage, waiter >>
  /\ UNCHANGED extVars

\* The loopback connections reach the mux listener in the order in which
\* http2.connect() dialled them.
MuxArrivalInOrder(t) ==
  \A i, j \in 1..Len(muxDialled) :
    muxDialled[j] = t /\ i < j /\ sSess[muxDialled[i]].st = "open" =>
      sMux[muxDialled[i]] # "none"

\* muxServer 'connection' on the server: the loopback socket that
\* http2.connect() dialled for the session of tunnel t is accepted.  Every
\* once('connection') listener that is attached runs with this socket and is
\* detached: each registers the socket and pipes it to the tunnel socket of its
\* own 'secureConnection'.
ServerMuxConnection(t) ==
  /\ sListening
  /\ sSess[t].st = "open"
  /\ sMux[t] = "none"
  /\ MuxArrivalInOrder(t)
  /\ sMux' = [sMux EXCEPT ![t] = "open"]
  /\ sPiped' = [sPiped EXCEPT ![t] = muxOnce]
  /\ muxOnce' = {}
  /\ UNCHANGED muxDialled
  /\ destroyables' = IF muxOnce = {} THEN destroyables
                     ELSE Register(destroyables, 0, {Res("mux", t)})
  /\ UNCHANGED << serverVars, clientVars, tunnelVars, connVars >>
  /\ UNCHANGED << closeables, stopWait, lifeVars, cMux >>
  /\ UNCHANGED extVars

\* The close callback of a handle destroyed in a callback runs in the close
\* phase of that same loop iteration; the loopback connect that http2.connect()
\* started in that callback completes in a later iteration.  So nothing
\* arrives for the session of the latest tunnel while the close of a socket
\* destroyed before is pending.
FreshIoOk(t) ==
  t = sTunnelSocket => \A p \in Tunnels \ {t} : sTls[p] # "destroyed"

\* Faulty variant: only the first session ever becomes the active one
ActiveSessionFirstOnly(t) == IF sActiveSession = 0 THEN t ELSE sActiveSession

\* this.activeSession = session
ActiveSessionSet(t) == t

\* session 'remoteSettings' on the server: activeSession = session,
\* "connected ..." is logged and 'connected' emitted.
ServerRemoteSettings(t) ==
  /\ sSess[t].st = "open" /\ ~sSess[t].ready
  /\ cSess[t].st # "none"
  /\ sMux[t] = "open"
  /\ t \in sPiped[t]
  /\ FreshIoOk(t)
  /\ sActiveSession' = ActiveSessionSet(t)
  /\ sSess' = [sSess EXCEPT ![t].ready = TRUE]
  /\ waiter' = EmitConnected(waiter, 0)
  /\ UNCHANGED << nextTun, tOwner, cTls, sTls, cSess >>
  /\ UNCHANGED << sListening, sAborted, sTunnelSocket, clientVars, connVars >>
  /\ UNCHANGED << regVars, muxVars, stopsDone, starts, closing, sHandshake,
                  garbage, sCrashed >>
  /\ UNCHANGED extVars

\* The server's TLS socket gets a network error.
ServerTunnelError(t) ==
  /\ TlsLive(sTls[t])
  /\ sTls' = [sTls EXCEPT ![t] = "destroyed"]
  /\ UNCHANGED << nextTun, tOwner, cTls, cSess, sSess >>
  /\ UNCHANGED << serverVars, clientVars, connVars >>
  /\ UNCHANGED << regVars, lifeVars, muxVars >>
  /\ UNCHANGED extVars

\* The client's end of the tunnel is gone: the server's socket ends.
ServerTunnelPeerClosed(t) ==
  /\ TlsLive(sTls[t])
  /\ cTls[t] \in {"destroyed", "closed"}
  /\ sTls' = [sTls EXCEPT ![t] = "destroyed"]
  /\ UNCHANGED << nextTun, tOwner, cTls, cSess, sSess >>
  /\ UNCHANGED << serverVars, clientVars, connVars >>
  /\ UNCHANGED << regVars, lifeVars, muxVars >>
  /\ UNCHANGED extVars

\* tunnelSocket.on("close", () => muxSocket.destroy()): the close of tunnel
\* socket t destroys the loopback sockets m that a once('connection')
\* listener of t's 'secureConnection' received.
ClosesMux(t, m) == t \in sPiped[m]

\* tunnelSocket 'close' on the server: session.destroy(new Error()), then
\* "disconnected" is logged; the mux socket (when it was accepted) is destroyed.
ServerTunnelClose(t) ==
  /\ sTls[t] = "destroyed"
  /\ sTls' = [sTls EXCEPT ![t] = "closed"]
  /\ sMux' = [m \in Tunnels |->
                IF ClosesMux(t, m) THEN DestroyMux(sMux[m]) ELSE sMux[m]]
  /\ EmitClose(0, Res("tls", t))
  /\ UNCHANGED << cMux, lifeVars >>
  /\ sSess' = [sSess EXCEPT ![t] = DestroySession(@, TRUE)]
  /\ strm' = [strm EXCEPT !["server"] =
                IF sSess[t].st = "open"
                THEN StreamsAfterSessionDestroy("server", t, TRUE)
                ELSE @]
  /\ UNCHANGED << nextTun, tOwner, cTls, cSess >>
  /\ UNCHANGED << serverVars, clientVars >>
  /\ UNCHANGED << nextConn, sessOf, sock, bridged, activeStreams,
                  tcpIn, tcpOut, h2In, h2Sent, peer >>
  /\ UNCHANGED extVars
  /\ UNCHANGED onceVars

\* The server's session of a connected tunnel fails by itself (a protocol
\* failure: the peer sent what is not HTTP/2): it is destroyed with an error,
\* which the empty 'error' listener swallows, and so are its streams.  No
\* listener of the server runs on a session's 'error' or 'close'.
ServerSessionError(t) ==
  /\ sTls[t] = "open"
  /\ sMux[t] = "open"
  /\ sSess[t].st = "open"
  /\ sSess' = [sSess EXCEPT ![t] = DestroySession(@, TRUE)]
  /\ strm' = [strm EXCEPT !["server"] = StreamsAfterSessionDestroy("server", t, TRUE)]
  /\ UNCHANGED << nextTun, tOwner, cTls, sTls, cSess >>
  /\ UNCHANGED << serverVars, clientVars >>
  /\ UNCHANGED << nextConn, sessOf, sock, bridged, activeStreams,
                  tcpIn, tcpOut, h2In, h2Sent, peer >>
  /\ UNCHANGED << regVars, lifeVars, muxVars >>
  /\ UNCHANGED extVars

\* The destroyed session closed its loopback connection: the mux socket reads
\* the end and closes, and muxSocket.pipe(tunnelSocket) calls
\* tunnelSocket.end().
ServerMuxEnd(t) ==
  /\ SessDestroyed(sSess[t])
  /\ sMux[t] = "open"
  /\ \E u \in sPiped[t] : sTls[u] = "open"
  /\ sMux' = [sMux EXCEPT ![t] = "destroyed"]
  /\ sTls' = [u \in Tunnels |->
                IF u \in sPiped[t] /\ sTls[u] = "open" THEN "ended" ELSE sTls[u]]
  /\ UNCHANGED << nextTun, tOwner, cTls, cSess, sSess >>
  /\ UNCHANGED << serverVars, clientVars, connVars >>
  /\ UNCHANGED << regVars, lifeVars, cMux >>
  /\ UNCHANGED extVars
  /\ UNCHANGED onceVars

\* ------------------------------------------------------------------ duplexes
\* The tunnel socket of endpoint e that carries connection c is open: frames
\* written reach the wire, frames on the wire are read.
TunnelUp(e, c) ==
  IF e = "server" THEN sTls[sessOf[c]] = "open" ELSE cTls[sessOf[c]] = "open"

\* Faulty variant: allowHalfOpen is off: the duplex is done once either side ended
SettleNoHalfOpen(d) ==
  IF d.st = "open" /\ (d.re \/ d.we) THEN [d EXCEPT !.st = "destroyed"] ELSE d

\* allowHalfOpen duplex: once 'end' was emitted and the writable side was
\* ended, the duplex destroys itself without an error.
Settle(d) ==
  IF d.st = "open" /\ d.re /\ d.we THEN [d EXCEPT !.st = "destroyed"] ELSE d

\* d.end()
DuplexEnd(d) == IF d.errored THEN d ELSE Settle([d EXCEPT !.we = TRUE])

\* d.write(chunk) hands the chunk on only while d is open and not ended.
Writable(d) == d.st = "open" /\ ~d.we

\* ---------------------------------------------------------- addStream: setup
\* Faulty variant: the test of writableEnded is inverted
EndCallsInverted(d2) == d2.we

\* duplex1.on("end"): if (!duplex2.writableEnded) duplex2.end()
EndCalls(d2) == ~d2.we
EndTarget(d2) == IF EndCalls(d2) THEN DuplexEnd(d2) ELSE d2

\* duplex1.on("close"): if (duplex1.errored && !duplex2.destroyed) destroyDuplex2()
CloseForces(d1, d2) == d1.errored /\ ~Destroyed(d2)

\* destroyDuplex2 for the stream: stream.destroy(new Error())
ForceStream(h) ==
  [h EXCEPT !.st = "destroyed", !.we = TRUE, !.errored = TRUE, !.forced = TRUE]

\* destroyDuplex2 for the socket: socket.resetAndDestroy() (errored stays null)
ForceSocket(s) == [s EXCEPT !.st = "destroyed", !.forced = TRUE]

\* Faulty variant: the whole session is destroyed instead of the one stream
ForceSessionOf(e, c) ==
  [d \in Conns |->
     IF sessOf[d] = sessOf[c] /\ strm[e][d].st = "open"
     THEN ForceStream(strm[e][d])
     ELSE strm[e][d]]

\* The streams of endpoint e after destroyDuplex2 ran for connection c.
ForceStreamOf(e, c) == [strm[e] EXCEPT ![c] = ForceStream(@)]

\* ------------------------------------------------------ addStream: the log
\* The lines of `kinds` are logged for connection c at end e.
Log(e, c, kinds) == [logged EXCEPT ![e][c] = LogLines(@, kinds)]

\* stream.on("error"): if (!socket.errored) log "recv RST".  The stream emits
\* 'error' when it was destroyed with an error, right before its 'close'.
StreamErrorLines(h, s) == IF h.errored /\ ~s.errored THEN {"recvRst"} ELSE {}

\* const streamId = this.activeStreams.size, taken by addStream before the
\* new entry is set; each endpoint has its own map.
StreamIdFor(e, c, ep) ==
  Cardinality({d \in activeStreams[e] : e = "server" \/ tOwner[sessOf[d]] = ep})

\* ------------------------------------------------------- proxy listener
\* Faulty variant: the liveness of the session is not looked at
ProxyRejectNullOnly ==
  \/ sActiveSession = 0
  \/ sAborted

\* proxyServer 'connection':
\*   if (!this.activeSession || this.activeSession.destroyed || this.aborted)
ProxyReject ==
  \/ sActiveSession = 0
  \/ SessDestroyed(sSess[sActiveSession])
  \/ sAborted

ProxyConnection ==
  LET c == nextConn IN
  /\ ProxyListening
  /\ nextConn <= MaxConns
  /\ nextConn' = nextConn + 1
  /\ peer' = [peer EXCEPT !["server"][c] = [st |-> "open", n |-> 0]]
  /\ IF ProxyReject
     THEN /\ sock' = [sock EXCEPT !["server"][c] = ForceSocket(OpenDuplex)]
          /\ tcpOut' = [tcpOut EXCEPT !["server"][c] = << Rst >>]
          /\ destroyables' = Register(destroyables, 0, {Res("sock", c)})
          /\ UNCHANGED << sessOf, strm, bridged, activeStreams, h2In >>
          /\ UNCHANGED << logged, streamId >>
     ELSE /\ sock' = [sock EXCEPT !["server"][c] = OpenDuplex]
          /\ destroyables' =
               Register(destroyables, 0, {Res("sock", c), Res("strm", c)})
          /\ strm' = [strm EXCEPT !["server"][c] = OpenDuplex]
          /\ sessOf' = [sessOf EXCEPT ![c] = sActiveSession]
          /\ bridged' = [bridged EXCEPT !["server"][c] = TRUE]
          /\ activeStreams' = [activeStreams EXCEPT !["server"] = @ \cup {c}]
          /\ h2In' = [h2In EXCEPT !["client"][c] =
                        IF sTls[sActiveSession] = "open" THEN << Hdr >> ELSE << >>]
          /\ streamId' = [streamId EXCEPT !["server"][c] = StreamIdFor("server", c, 0)]
          /\ logged' = Log("server", c, {"forwarded"})
          /\ UNCHANGED tcpOut
  /\ UNCHANGED << tcpIn, h2Sent >>
  /\ UNCHANGED << serverVars, clientVars, tunnelVars >>
  /\ UNCHANGED << closeables, stopWait, lifeVars, muxVars >>
  /\ UNCHANGED << listenVars, sBind, ping, pingTimeout >>
  /\ UNCHANGED timeouts

\* ------------------------------------------------------- client: new stream
\* muxServer 'stream': the stream is registered and the origin is dialled;
\* nothing listens to the stream's 'data', 'end' or 'close' yet.
ClientStream(c) ==
  /\ sessOf[c] # 0
  /\ cTls[sessOf[c]] = "open"
  /\ cSess[sessOf[c]].st = "open" /\ cSess[sessOf[c]].ready
  /\ strm["client"][c].st = "none"
  /\ h2In["client"][c] # << >> /\ Head(h2In["client"][c]).k = "hdr"
  /\ strm' = [strm EXCEPT !["client"][c] = OpenDuplex]
  /\ sock' = [sock EXCEPT !["client"][c] = [NoDuplex EXCEPT !.st = "connecting"]]
  /\ h2In' = [h2In EXCEPT !["client"][c] = Tail(@)]
  /\ destroyables' =
       Register(destroyables, EpOf("client", c), {Res("strm", c), Res("sock", c)})
  /\ UNCHANGED << nextConn, sessOf, bridged, activeStreams, tcpIn, tcpOut,
                  h2Sent, peer >>
  /\ UNCHANGED << serverVars, clientVars, tunnelVars >>
  /\ UNCHANGED << closeables, stopWait, lifeVars, muxVars >>
  /\ UNCHANGED extVars

\* Faulty variant: the stream flowed before anyone listened: its first chunk is gone
BufferedLosesHead(q) ==
  IF q # << >> /\ Head(q).k = "data" THEN Tail(q) ELSE q

\* What the stream received while it had no 'data' listener (from the 'stream'
\* event to addStream) stays in its read buffer, in order.
Buffered(q) == q

\* origin socket 'connect': addStream(socket, stream)
ClientOriginConnect(c) ==
  /\ sock["client"][c].st = "connecting"
  /\ sock' = [sock EXCEPT !["client"][c].st = "open"]
  /\ bridged' = [bridged EXCEPT !["client"][c] = TRUE]
  /\ activeStreams' = [activeStreams EXCEPT !["client"] = @ \cup {c}]
  /\ peer' = [peer EXCEPT !["client"][c] = [st |-> "open", n |-> 0]]
  /\ h2In' = [h2In EXCEPT !["client"][c] = Buffered(@)]
  /\ UNCHANGED << nextConn, sessOf, strm, tcpIn, tcpOut, h2Sent >>
  /\ UNCHANGED << serverVars, clientVars, tunnelVars >>
  /\ UNCHANGED << regVars, lifeVars, muxVars >>
  /\ streamId' = [streamId EXCEPT !["client"][c] =
                    StreamIdFor("client", c, EpOf("client", c))]
  /\ logged' = Log("client", c, {"forwarding"})
  /\ UNCHANGED << listenVars, sBind, ping, pingTimeout >>
  /\ UNCHANGED timeouts

\* What is left of a socket, stream or session of a process that ended.
Gone(d) == IF d.st = "none" THEN d ELSE [d EXCEPT !.st = "closed"]

\* The dial to the origin fails (connection refused): the socket is destroyed
\* and emits 'error'.  Its 'error' listener is attached by addStream, which has
\* not run, and the 'stream' handler attached only 'connect': the event has no
\* listener and is thrown as an uncaught exception, which ends the process of
\* the client.  Nothing of that client runs afterwards; its sockets are closed
\* by the system, and the server sees the tunnel close.
ClientOriginDialFailed(c) ==
  /\ sock["client"][c].st = "connecting"
  /\ LET k == EpOf("client", c) IN
     /\ cPhase' = [cPhase EXCEPT ![k] = "crashed"]
     /\ cRestart' = [cRestart EXCEPT ![k] = {}]
     /\ cTls' = [t \in Tunnels |->
                  IF tOwner[t] = k /\ cTls[t] \in {"open", "destroyed"}
                  THEN "closed" ELSE cTls[t]]
     /\ cSess' = [t \in Tunnels |->
                   IF tOwner[t] = k THEN Gone(cSess[t]) ELSE cSess[t]]
     /\ cMux' = [t \in Tunnels |->
                  IF tOwner[t] = k /\ cMux[t] # "none" THEN "closed" ELSE cMux[t]]
     /\ sock' = [sock EXCEPT !["client"] =
                   [d \in Conns |->
                      IF d = c THEN [Gone(@[d]) EXCEPT !.errored = TRUE]
                      ELSE IF sessOf[d] # 0 /\ tOwner[sessOf[d]] = k
                           THEN Gone(@[d]) ELSE @[d]]]
     /\ strm' = [strm EXCEPT !["client"] =
                   [d \in Conns |->
                      IF sessOf[d] # 0 /\ tOwner[sessOf[d]] = k
                      THEN Gone(@[d]) ELSE @[d]]]
  /\ UNCHANGED << cAborted, cRestartTimeout, cTunnelSocket >>
  /\ UNCHANGED << nextTun, tOwner, sTls, sSess >>
  /\ UNCHANGED << nextConn, sessOf, bridged, activeStreams, tcpIn, tcpOut,
                  h2In, h2Sent, peer >>
  /\ UNCHANGED << serverVars, regVars, lifeVars, sMux, onceVars >>
  /\ UNCHANGED extVars

\* ------------------------------------------------------- bridge: socket side
\* socket 'data': stream.write(chunk)
SockData(e, c) ==
  /\ sock[e][c].st = "open" /\ bridged[e][c]
  /\ tcpIn[e][c] # << >> /\ Head(tcpIn[e][c]).k = "data"
  /\ tcpIn' = [tcpIn EXCEPT ![e][c] = Tail(@)]
  /\ IF Writable(strm[e][c])
     THEN /\ h2Sent' = [h2Sent EXCEPT ![e][c] = Append(@, Head(tcpIn[e][c]).n)]
          /\ h2In' = [h2In EXCEPT ![Other(e)][c] =
                        IF TunnelUp(e, c) THEN Append(@, Head(tcpIn[e][c])) ELSE @]
     ELSE UNCHANGED << h2Sent, h2In >>
  /\ UNCHANGED << nextConn, sessOf, sock, strm, bridged, activeStreams,
                  tcpOut, peer >>
  /\ UNCHANGED << serverVars, clientVars, tunnelVars >>
  /\ UNCHANGED << regVars, lifeVars, muxVars >>
  /\ logged' = Log(e, c, {"data"})
  /\ UNCHANGED << listenVars, sBind, streamId, ping, pingTimeout >>
  /\ UNCHANGED timeouts

\* socket 'end': stream.end() unless stream.writableEnded
SockEnd(e, c) ==
  /\ sock[e][c].st = "open" /\ bridged[e][c]
  /\ tcpIn[e][c] # << >> /\ Head(tcpIn[e][c]).k = "fin"
  /\ tcpIn' = [tcpIn EXCEPT ![e][c] = Tail(@)]
  /\ sock' = [sock EXCEPT ![e][c] = Settle([@ EXCEPT !.re = TRUE])]
  /\ strm' = [strm EXCEPT ![e][c] = EndTarget(@)]
  /\ h2In' = [h2In EXCEPT ![Other(e)][c] =
                IF EndCalls(strm[e][c]) /\ strm[e][c].st = "open" /\ TunnelUp(e, c)
                THEN Append(@, Fin) ELSE @]
  /\ UNCHANGED << nextConn, sessOf, bridged, activeStreams, tcpOut, h2Sent, peer >>
  /\ UNCHANGED << serverVars, clientVars, tunnelVars >>
  /\ UNCHANGED << regVars, lifeVars, muxVars >>
  /\ logged' = Log(e, c, {"sendFin"})
  /\ UNCHANGED << listenVars, sBind, streamId, ping, pingTimeout >>
  /\ UNCHANGED timeouts

\* The socket reads ECONNRESET: destroyed with an error.
SockRst(e, c) ==
  /\ sock[e][c].st = "open"
  /\ tcpIn[e][c] # << >> /\ Head(tcpIn[e][c]).k = "rst"
  /\ tcpIn' = [tcpIn EXCEPT ![e][c] = << >>]
  /\ sock' = [sock EXCEPT ![e][c] = [@ EXCEPT !.st = "destroyed", !.errored = TRUE]]
  /\ UNCHANGED << nextConn, sessOf, strm, bridged, activeStreams, tcpOut,
                  h2In, h2Sent, peer >>
  /\ UNCHANGED << serverVars, clientVars, tunnelVars >>
  /\ UNCHANGED << regVars, lifeVars, muxVars >>
  /\ logged' = IF bridged[e][c] THEN Log(e, c, {"err", "sendRst"}) ELSE logged
  /\ UNCHANGED << listenVars, sBind, streamId, ping, pingTimeout >>
  /\ UNCHANGED timeouts

\* socket 'close': if (socket.errored && !stream.destroyed) stream.destroy(new Error())
SockClose(e, c) ==
  /\ sock[e][c].st = "destroyed"
  /\ sock' = [sock EXCEPT ![e][c].st = "closed"]
  /\ EmitClose(EpOf(e, c), Res("sock", c))
  /\ UNCHANGED << lifeVars, muxVars >>
  /\ IF bridged[e][c] /\ CloseForces(sock[e][c], strm[e][c])
     THEN /\ strm' = [strm EXCEPT ![e] = ForceStreamOf(e, c)]
          /\ h2In' = [h2In EXCEPT ![Other(e)][c] =
                        IF TunnelUp(e, c) THEN Append(@, Rst) ELSE @]
     ELSE UNCHANGED << strm, h2In >>
  /\ UNCHANGED << nextConn, sessOf, bridged, activeStreams, tcpIn, tcpOut,
                  h2Sent, peer >>
  /\ UNCHANGED << serverVars, clientVars, tunnelVars >>
  /\ UNCHANGED extVars

\* ------------------------------------------------------- bridge: stream side
\* stream 'data': socket.write(chunk)
StrmData(e, c) ==
  /\ strm[e][c].st = "open" /\ bridged[e][c] /\ TunnelUp(e, c)
  /\ h2In[e][c] # << >> /\ Head(h2In[e][c]).k = "data"
  /\ h2In' = [h2In EXCEPT ![e][c] = Tail(@)]
  /\ tcpOut' = [tcpOut EXCEPT ![e][c] =
                  IF Writable(sock[e][c]) THEN Append(@, Head(h2In[e][c])) ELSE @]
  /\ UNCHANGED << nextConn, sessOf, sock, strm, bridged, activeStreams,
                  tcpIn, h2Sent, peer >>
  /\ UNCHANGED << serverVars, clientVars, tunnelVars >>
  /\ UNCHANGED << regVars, lifeVars, muxVars >>
  /\ logged' = Log(e, c, {"data"})
  /\ UNCHANGED << listenVars, sBind, streamId, ping, pingTimeout >>
  /\ UNCHANGED timeouts

\* stream 'end': socket.end() unless socket.writableEnded
StrmEnd(e, c) ==
  /\ strm[e][c].st = "open" /\ bridged[e][c] /\ TunnelUp(e, c)
  /\ h2In[e][c] # << >> /\ Head(h2In[e][c]).k = "fin"
  /\ h2In' = [h2In EXCEPT ![e][c] = Tail(@)]
  /\ strm' = [strm EXCEPT ![e][c] = Settle([@ EXCEPT !.re = TRUE])]
  /\ sock' = [sock EXCEPT ![e][c] = EndTarget(@)]
  /\ tcpOut' = [tcpOut EXCEPT ![e][c] =
                  IF EndCalls(sock[e][c]) /\ sock[e][c].st = "open"
                  THEN Append(@, Fin) ELSE @]
  /\ UNCHANGED << nextConn, sessOf, bridged, activeStreams, tcpIn, h2Sent, peer >>
  /\ UNCHANGED << serverVars, clientVars, tunnelVars >>
  /\ UNCHANGED << regVars, lifeVars, muxVars >>
  /\ logged' = Log(e, c, {"recvFin"})
  /\ UNCHANGED << listenVars, sBind, streamId, ping, pingTimeout >>
  /\ UNCHANGED timeouts

\* RST_STREAM arrives: the stream is destroyed with an error.  It is acted on
\* when the frame is read, so it overtakes chunks that wait in a stream
\* nobody reads yet (the client's stream before addStream).
StrmRst(e, c) ==
  /\ strm[e][c].st = "open" /\ TunnelUp(e, c)
  /\ h2In[e][c] # << >>
  /\ \/ Head(h2In[e][c]).k = "rst"
     \/ ~bridged[e][c] /\ HasKind(h2In[e][c], "rst")
  /\ h2In' = [h2In EXCEPT ![e][c] = << >>]
  /\ strm' = [strm EXCEPT ![e][c] = DestroyStream(@, TRUE)]
  /\ UNCHANGED << nextConn, sessOf, sock, bridged, activeStreams, tcpIn,
                  tcpOut, h2Sent, peer >>
  /\ UNCHANGED << serverVars, clientVars, tunnelVars >>
  /\ UNCHANGED << regVars, lifeVars, muxVars >>
  /\ UNCHANGED extVars

\* stream 'error' (if it was destroyed with an error), then stream 'close':
\*   log "closed"; activeStreams.delete(stream);
\*   if (stream.errored && !socket.destroyed) socket.resetAndDestroy()
StrmClose(e, c) ==
  /\ strm[e][c].st = "destroyed"
  /\ strm' = [strm EXCEPT ![e][c].st = "closed"]
  /\ EmitClose(EpOf(e, c), Res("strm", c))
  /\ UNCHANGED << lifeVars, muxVars >>
  /\ activeStreams' = [activeStreams EXCEPT ![e] =
                         IF bridged[e][c] THEN @ \ {c} ELSE @]
  /\ IF bridged[e][c] /\ CloseForces(strm[e][c], sock[e][c])
     THEN /\ sock' = [sock EXCEPT ![e][c] = ForceSocket(@)]
          /\ tcpOut' = [tcpOut EXCEPT ![e][c] = Append(@, Rst)]
     ELSE UNCHANGED << sock, tcpOut >>
  /\ UNCHANGED << nextConn, sessOf, bridged, tcpIn, h2In, h2Sent, peer >>
  /\ UNCHANGED << serverVars, clientVars, tunnelVars >>
  /\ logged' =
       IF bridged[e][c]
       THEN [logged EXCEPT ![e][c] =
               LogLines(LogLines(@, StreamErrorLines(strm[e][c], sock[e][c])),
                        {"closed"})]
       ELSE logged
  /\ UNCHANGED << listenVars, sBind, streamId, ping, pingTimeout >>
  /\ UNCHANGED timeouts

\* ------------------------------------------- the browser and the origin
PeerCanSend(e, c) ==
  /\ peer[e][c].st = "open"
  /\ ~HasKind(tcpOut[e][c], "rst")

PeerWrite(e, c) ==
  /\ PeerCanSend(e, c)
  /\ peer[e][c].n < MaxChunks
  /\ peer' = [peer EXCEPT ![e][c].n = @ + 1]
  /\ tcpIn' = [tcpIn EXCEPT ![e][c] = Append(@, Data(peer[e][c].n + 1))]
  /\ UNCHANGED << nextConn, sessOf, sock, strm, bridged, activeStreams,
                  tcpOut, h2In, h2Sent >>
  /\ UNCHANGED << serverVars, clientVars, tunnelVars >>
  /\ UNCHANGED << regVars, lifeVars, muxVars >>
  /\ UNCHANGED extVars

PeerEnd(e, c) ==
  /\ PeerCanSend(e, c)
  /\ peer' = [peer EXCEPT ![e][c].st = "ended"]
  /\ tcpIn' = [tcpIn EXCEPT ![e][c] = Append(@, Fin)]
  /\ UNCHANGED << nextConn, sessOf, sock, strm, bridged, activeStreams,
                  tcpOut, h2In, h2Sent >>
  /\ UNCHANGED << serverVars, clientVars, tunnelVars >>
  /\ UNCHANGED << regVars, lifeVars, muxVars >>
  /\ UNCHANGED extVars

PeerReset(e, c) ==
  /\ peer[e][c].st \in {"open", "ended"}
  /\ ~HasKind(tcpOut[e][c], "rst")
  /\ peer' = [peer EXCEPT ![e][c].st = "reset"]
  /\ tcpIn' = [tcpIn EXCEPT ![e][c] = Append(@, Rst)]
  /\ UNCHANGED << nextConn, sessOf, sock, strm, bridged, activeStreams,
                  tcpOut, h2In, h2Sent >>
  /\ UNCHANGED << serverVars, clientVars, tunnelVars >>
  /\ UNCHANGED << regVars, lifeVars, muxVars >>
  /\ UNCHANGED extVars

\* ------------------------------------------------- handshakes that fail
\* Faulty variant: a handshake error takes the tunnel listener down
AfterTlsClientErrorClosed(listening) == FALSE

\* The 'tlsClientError' handler only logs: the listener stays as it is.
AfterTlsClientError(listening) == listening

\* tunnelServer 'tlsClientError' for the connection of a dialled tunnel (an
\* untrusted certificate, or the client went away during the handshake): the
\* error is logged and the connection dropped; nothing else changes.
ServerTlsClientError(t) ==
  /\ t \in sHandshake
  /\ sHandshake' = sHandshake \ {t}
  /\ sTls' = [sTls EXCEPT ![t] = "failed"]
  /\ sListening' = AfterTlsClientError(sListening)
  /\ UNCHANGED << nextTun, tOwner, cTls, cSess, sSess >>
  /\ UNCHANGED << sAborted, sActiveSession, sTunnelSocket, clientVars, connVars >>
  /\ UNCHANGED << regVars, muxVars, stopsDone, starts, closing, garbage,
                  sCrashed, waiter >>
  /\ UNCHANGED extVars

\* Something that does not speak TLS connects to the tunnel listener.
GarbageConnect ==
  /\ TunnelListening
  /\ ~garbage.open
  /\ garbage.n < MaxGarbage
  /\ garbage' = [n |-> garbage.n + 1, open |-> TRUE]
  /\ UNCHANGED << serverVars, clientVars, tunnelVars, connVars >>
  /\ UNCHANGED << regVars, muxVars, stopsDone, starts, closing, sHandshake,
                  sCrashed, waiter >>
  /\ UNCHANGED extVars

\* tunnelServer 'tlsClientError' for the garbage: logged, connection dropped.
GarbageTlsClientError ==
  /\ garbage.open
  /\ garbage' = [garbage EXCEPT !.open = FALSE]
  /\ sListening' = AfterTlsClientError(sListening)
  /\ UNCHANGED << sAborted, sActiveSession, sTunnelSocket >>
  /\ UNCHANGED << clientVars, tunnelVars, connVars >>
  /\ UNCHANGED << regVars, muxVars, stopsDone, starts, closing, sHandshake,
                  sCrashed, waiter >>
  /\ UNCHANGED extVars

\* The client's TLS socket learns that its handshake was refused.
ClientHandshakeFailed(t) ==
  /\ cTls[t] = "open"
  /\ sTls[t] = "failed"
  /\ cTls' = [cTls EXCEPT ![t] = "destroyed"]
  /\ UNCHANGED << nextTun, tOwner, sTls, cSess, sSess >>
  /\ UNCHANGED << serverVars, clientVars, connVars >>
  /\ UNCHANGED << regVars, lifeVars, muxVars >>
  /\ UNCHANGED extVars

\* The dial finds nobody listening on the tunnel port (ECONNREFUSED): the
\* socket is destroyed with the error.
ClientDialRefused(t) ==
  /\ cTls[t] = "open"
  /\ sTls[t] = "none" /\ t \notin sHandshake
  /\ ~sListening
  /\ cTls' = [cTls EXCEPT ![t] = "destroyed"]
  /\ UNCHANGED << nextTun, tOwner, sTls, cSess, sSess >>
  /\ UNCHANGED << serverVars, clientVars, connVars >>
  /\ UNCHANGED << regVars, lifeVars, muxVars >>
  /\ UNCHANGED extVars

\* ------------------------------------------------------------------- stop()
\* socket.destroy() without an error
DestroyDuplex(d) ==
  IF d.st \in {"connecting", "open"} THEN [d EXCEPT !.st = "destroyed"] ELSE d

\* tunnelSocket.destroy()
DestroyTls(x) == IF TlsLive(x) THEN "destroyed" ELSE x

\* [...this.destroyables].forEach((d) => d.destroy()) at endpoint ep, for the
\* sockets and the streams of end e.
StopSocks(e, ep) ==
  [c \in Conns |->
     IF Res("sock", c) \in destroyables[ep] THEN DestroyDuplex(sock[e][c])
     ELSE sock[e][c]]

StopStrms(e, ep) ==
  [c \in Conns |->
     IF Res("strm", c) \in destroyables[ep] \/ Res("sess", sessOf[c]) \in destroyables[ep]
     THEN DestroyStream(strm[e][c], FALSE)
     ELSE strm[e][c]]

\* Faulty variant: stop() leaves the tunnel sockets alone
StopTlsNot(tls, ep) == tls

\* ... for the tunnel sockets, the sessions and the mux sockets
StopTls(tls, ep) ==
  [t \in Tunnels |->
     IF Res("tls", t) \in destroyables[ep] THEN DestroyTls(tls[t]) ELSE tls[t]]

StopSess(sess, ep) ==
  [t \in Tunnels |->
     IF Res("sess", t) \in destroyables[ep]
     THEN DestroySession(sess[t], FALSE) ELSE sess[t]]

StopMux(mux, ep) ==
  [t \in Tunnels |->
     IF Res("mux", t) \in destroyables[ep] THEN DestroyMux(mux[t]) ELSE mux[t]]

\* Faulty variant: stop() waits only for the listeners
StopAwaitsCloseables(ep) == closeables[ep]

\* [...this.closeables, ...this.destroyables]: what this stop() call waits for
StopAwaits(ep) == closeables[ep] \cup destroyables[ep]

\* [...this.timeouts].forEach(clearTimeout), for the keepalive timers of
\* endpoint ep
ClearPingTimers(p, ep) ==
  [e \in Ends |-> [t \in Tunnels |->
     IF e = "client" /\ tOwner[t] = ep /\ p[e][t] = "timer"
     THEN "none" ELSE p[e][t]]]

\* Stoppable.stop() up to its await: every timer is cleared, every closeable
\* is close()d, every destroyable destroy()ed, and the call waits for the
\* 'close' of each.
StoppableStop(ep) ==
  /\ closing' = [closing EXCEPT ![ep] = @ \cup closeables[ep]]
  /\ stopWait' = [stopWait EXCEPT ![ep] = Append(@, StopAwaits(ep))]
  /\ ping' = ClearPingTimers(ping, ep)
  /\ UNCHANGED << closeables, destroyables >>
  /\ UNCHANGED << sBind, logged, streamId, pingTimeout >>
  /\ UNCHANGED timeouts

\* TunnelServer.stop(): aborted = true, then Stoppable.stop().
ServerStop ==
  /\ stopsDone[0] + Len(stopWait[0]) < MaxStops
  /\ sAborted' = TRUE
  /\ sListening' = (sListening /\ Res("tunnelServer", 0) \notin closeables[0])
  /\ StoppableStop(0)
  /\ sListen' = [l \in AllListeners |-> "off"]
  /\ UNCHANGED << listenHooks, hookListening, listeningLines >>
  /\ sTls' = StopTls(sTls, 0)
  /\ sSess' = StopSess(sSess, 0)
  /\ sMux' = StopMux(sMux, 0)
  /\ sock' = [sock EXCEPT !["server"] = StopSocks("server", 0)]
  /\ strm' = [strm EXCEPT !["server"] = StopStrms("server", 0)]
  /\ UNCHANGED << sActiveSession, sTunnelSocket, clientVars >>
  /\ UNCHANGED << nextTun, tOwner, cTls, cSess, cMux >>
  /\ UNCHANGED << nextConn, sessOf, bridged, activeStreams, tcpIn, tcpOut,
                  h2In, h2Sent, peer >>
  /\ UNCHANGED << stopsDone, starts, sHandshake, garbage, sCrashed, waiter >>
  /\ UNCHANGED onceVars

\* Faulty variant: the timers are left to fire
ClearTimeoutsNot(timers, k) == timers

\* [...this.timeouts].forEach(clearTimeout)
ClearTimeouts(timers, k) == [timers EXCEPT ![k] = {}]

\* TunnelClient.stop(): aborted = true, then Stoppable.stop(), which also
\* clears every timer ([...this.timeouts].forEach(clearTimeout)).
ClientStop(k) ==
  /\ stopsDone[k] + Len(stopWait[k]) < MaxStops
  /\ cAborted' = [cAborted EXCEPT ![k] = TRUE]
  /\ cRestart' = ClearTimeouts(cRestart, k)
  /\ cPhase' = [cPhase EXCEPT ![k] = "stopped"]
  /\ StoppableStop(k)
  /\ UNCHANGED listenVars
  /\ cTls' = StopTls(cTls, k)
  /\ cSess' = StopSess(cSess, k)
  /\ cMux' = StopMux(cMux, k)
  /\ sock' = [sock EXCEPT !["client"] = StopSocks("client", k)]
  /\ strm' = [strm EXCEPT !["client"] = StopStrms("client", k)]
  /\ UNCHANGED << cRestartTimeout, cTunnelSocket, serverVars >>
  /\ UNCHANGED << nextTun, tOwner, sTls, sSess, sMux >>
  /\ UNCHANGED << nextConn, sessOf, bridged, activeStreams, tcpIn, tcpOut,
                  h2In, h2Sent, peer >>
  /\ UNCHANGED << stopsDone, starts, sHandshake, garbage, sCrashed, waiter >>
  /\ UNCHANGED onceVars

RemoveAt(q, i) == [j \in 1..(Len(q) - 1) |-> IF j < i THEN q[j] ELSE q[j + 1]]

\* await Promise.all(...) is over: everything this stop() call waited for has
\* emitted 'close'; "stopped" is logged and the call resolves.
StopResolve(ep) ==
  /\ \E i \in DOMAIN stopWait[ep] :
       /\ stopWait[ep][i] = {}
       /\ stopWait' = [stopWait EXCEPT ![ep] = RemoveAt(@, i)]
  /\ stopsDone' = [stopsDone EXCEPT ![ep] = @ + 1]
  /\ UNCHANGED << serverVars, clientVars, tunnelVars, connVars, muxVars >>
  /\ UNCHANGED << closeables, destroyables, starts, closing, sHandshake,
                  garbage, sCrashed, waiter >>
  /\ UNCHANGED extVars

\* ------------------------------------------------- 'close' of what stop() hit
\* session 'close' (after destroy())
ServerSessionClose(t) ==
  /\ sSess[t].st = "destroyed"
  /\ sSess' = [sSess EXCEPT ![t].st = "closed"]
  /\ EmitClose(0, Res("sess", t))
  /\ UNCHANGED << nextTun, tOwner, cTls, sTls, cSess >>
  /\ UNCHANGED << serverVars, clientVars, connVars, lifeVars, muxVars >>
  /\ UNCHANGED extVars

ClientSessionClose(t) ==
  /\ cSess[t].st = "destroyed"
  /\ cSess' = [cSess EXCEPT ![t].st = "closed"]
  /\ EmitClose(tOwner[t], Res("sess", t))
  /\ UNCHANGED << nextTun, tOwner, cTls, sTls, sSess >>
  /\ UNCHANGED << serverVars, clientVars, connVars, lifeVars, muxVars >>
  /\ UNCHANGED extVars

\* mux socket 'close'
ServerMuxClose(t) ==
  /\ sMux[t] = "destroyed"
  /\ sMux' = [sMux EXCEPT ![t] = "closed"]
  /\ EmitClose(0, Res("mux", t))
  /\ UNCHANGED << serverVars, clientVars, tunnelVars, connVars, lifeVars, cMux >>
  /\ UNCHANGED extVars
  /\ UNCHANGED onceVars

ClientMuxClose(t) ==
  /\ cMux[t] = "destroyed"
  /\ cMux' = [cMux EXCEPT ![t] = "closed"]
  /\ EmitClose(tOwner[t], Res("mux", t))
  /\ UNCHANGED << serverVars, clientVars, tunnelVars, connVars, lifeVars, sMux >>
  /\ UNCHANGED extVars
  /\ UNCHANGED onceVars

\* net.Server emits 'close' once close() was called and every connection it
\* accepted has closed.
Drained(ep, r) ==
  IF ep = 0
  THEN CASE r.r = "muxServer" ->
              \A t \in Tunnels : sMux[t] \in {"none", "closed"}
         [] r.r = "proxyServer" ->
              \A c \in Conns : sock["server"][c].st \in {"none", "closed"}
         [] OTHER ->
              /\ sHandshake = {}
              /\ ~garbage.open
              /\ \A t \in Tunnels : sTls[t] \in {"none", "failed", "closed"}
  ELSE \A t \in Tunnels : tOwner[t] = ep => cSess[t].st \in {"none", "closed"}

ListenerClose(ep, r) ==
  /\ r \in closing[ep]
  /\ Drained(ep, r)
  /\ closing' = [closing EXCEPT ![ep] = @ \ {r}]
  /\ EmitClose(ep, r)
  /\ UNCHANGED << serverVars, clientVars, tunnelVars, connVars, muxVars >>
  /\ UNCHANGED << stopsDone, starts, sHandshake, garbage, sCrashed, waiter >>
  /\ UNCHANGED extVars

\* The proxy listener or the tunnel listener emits 'close' although stop() was
\* not called (close() was called on the public field proxyServer or
\* tunnelServer, and no connection of the listener is left): the listener of
\* addCloseable removes it from closeables, and no other listener runs.
ServerListenerClose(l) ==
  /\ sListening /\ ~sAborted
  /\ stopWait[0] = << >>
  /\ sBind[l] = "ok"
  /\ Res(l, 0) \in closeables[0] \ closing[0]
  /\ Drained(0, Res(l, 0))
  /\ sBind' = [sBind EXCEPT ![l] = "closed"]
  /\ sListen' = [sListen EXCEPT ![l] = "off"]
  /\ EmitClose(0, Res(l, 0))
  /\ UNCHANGED << serverVars, clientVars, tunnelVars, connVars >>
  /\ UNCHANGED << lifeVars, muxVars >>
  /\ UNCHANGED << logged, streamId, ping, pingTimeout >>
  /\ UNCHANGED << listenHooks, hookListening, listeningLines >>
  /\ UNCHANGED timeouts

\* ------------------------------------------------------- waitUntilConnected()
\* this.activeSession of client k: TunnelClient never assigns it.
ClientActiveSession(k) == 0

\* if (!this.activeSession || this.activeSession.destroyed)
MustAwaitConnected(ep) ==
  IF ep = 0
  THEN sActiveSession = 0 \/ SessDestroyed(sSess[sActiveSession])
  ELSE ClientActiveSession(ep) = 0 \/ SessDestroyed(cSess[ClientActiveSession(ep)])

\* waitUntilConnected(): resolves at once, or at the next 'connected'.
WaitUntilConnected(ep) ==
  /\ waiter[ep] = "none"
  /\ waiter' = [waiter EXCEPT ![ep] =
                  IF MustAwaitConnected(ep) THEN "waiting" ELSE "resolved"]
  /\ UNCHANGED << serverVars, clientVars, tunnelVars, connVars >>
  /\ UNCHANGED << regVars, muxVars, stopsDone, starts, closing, sHandshake,
                  garbage, sCrashed >>
  /\ UNCHANGED extVars

\* ------------------------------------------------------------ specification
TunnelStep ==
  \/ ServerStart
  \/ \E k \in Clients : ClientStart(k)
  \/ \E k \in Clients : ClientMuxListening(k)
  \/ \E k \in Clients : ClientRestartTimer(k)
  \/ \E t \in Tunnels : ClientSession(t)
  \/ \E t \in Tunnels : ClientRemoteSettings(t)
  \/ \E t \in Tunnels : ClientTunnelError(t)
  \/ \E t \in Tunnels : ClientTunnelPeerClosed(t)
  \/ \E t \in Tunnels : ClientTunnelClose(t)
  \/ \E t \in Tunnels : ServerTunnelAccept(t)
  \/ \E t \in Tunnels : ServerSecureConnection(t)
  \/ \E t \in Tunnels : ServerMuxConnection(t)
  \/ \E t \in Tunnels : ServerRemoteSettings(t)
  \/ \E t \in Tunnels : ServerTunnelError(t)
  \/ \E t \in Tunnels : ServerTunnelPeerClosed(t)
  \/ \E t \in Tunnels : ServerTunnelClose(t)

BridgeStep(e, c) ==
  \/ SockData(e, c)
  \/ SockEnd(e, c)
  \/ SockRst(e, c)
  \/ SockClose(e, c)
  \/ StrmData(e, c)
  \/ StrmEnd(e, c)
  \/ StrmRst(e, c)
  \/ StrmClose(e, c)

PeerStep(e, c) ==
  \/ PeerWrite(e, c)
  \/ PeerEnd(e, c)
  \/ PeerReset(e, c)

\* One bridged pair over the first tunnel: the first proxy connection, from
\* the browser's connect to the close of both sockets or of the tunnel.
SetupStep ==
  \/ ServerStart
  \/ ClientStart(1)
  \/ ClientMuxListening(1)
  \/ \E t \in Tunnels : ClientSession(t)
  \/ \E t \in Tunnels : ClientRemoteSettings(t)
  \/ \E t \in Tunnels : ServerTunnelAccept(t)
  \/ \E t \in Tunnels : ServerSecureConnection(t)
  \/ \E t \in Tunnels : ServerMuxConnection(t)
  \/ \E t \in Tunnels : ServerRemoteSettings(t)

NextBridge ==
  \/ SetupStep
  \/ nextConn = 1 /\ ProxyConnection
  \/ ClientStream(1)
  \/ ClientOriginConnect(1)
  \/ \E e \in Ends : BridgeStep(e, 1)
  \/ \E e \in Ends : PeerStep(e, 1)
  \/ \E t \in Tunnels : ClientTunnelError(t)
  \/ \E t \in Tunnels : ClientTunnelPeerClosed(t)
  \/ \E t \in Tunnels : ClientTunnelClose(t)
  \/ \E t \in Tunnels : ServerTunnelError(t)
  \/ \E t \in Tunnels : ServerTunnelPeerClosed(t)
  \/ \E t \in Tunnels : ServerTunnelClose(t)

SpecBridge == Init /\ [][NextBridge]_vars

\* Tunnels come and go (latest wins, errors, reconnects) under proxy
\* connections that carry no data.
NextTunnel ==
  \/ TunnelStep
  \/ ProxyConnection
  \/ \E c \in Conns : ClientStream(c)
  \/ \E c \in Conns : ClientOriginConnect(c)
  \/ \E e \in Ends, c \in Conns : SockClose(e, c)
  \/ \E e \in Ends, c \in Conns : StrmClose(e, c)

SpecTunnel == Init /\ [][NextTunnel]_vars

\* Several pairs on one tunnel that stays up; the browser or the origin may
\* reset its connection.
NextPairs ==
  \/ SetupStep
  \/ ProxyConnection
  \/ \E c \in Conns : ClientStream(c)
  \/ \E c \in Conns : ClientOriginConnect(c)
  \/ \E e \in Ends, c \in Conns : PeerReset(e, c)
  \/ \E e \in Ends, c \in Conns : SockRst(e, c)
  \/ \E e \in Ends, c \in Conns : SockClose(e, c)
  \/ \E e \in Ends, c \in Conns : StrmRst(e, c)
  \/ \E e \in Ends, c \in Conns : StrmClose(e, c)

SpecPairs == Init /\ [][NextPairs]_vars

\* One bridged pair over a tunnel that stays up.  Every event that is pending
\* in the event loop is eventually handled; the browser and the origin write,
\* end and reset when they like.
NextFlow ==
  \/ SetupStep
  \/ nextConn = 1 /\ ProxyConnection
  \/ ClientStream(1)
  \/ ClientOriginConnect(1)
  \/ \E e \in Ends : BridgeStep(e, 1)
  \/ \E e \in Ends : PeerStep(e, 1)

SpecFlow ==
  /\ Init
  /\ [][NextFlow]_vars
  /\ WF_vars(ClientStream(1))
  /\ WF_vars(ClientOriginConnect(1))
  /\ \A e \in Ends : WF_vars(BridgeStep(e, 1))

\* The server process runs until a handler throws.
ServerRuns == ~sCrashed

\* What the first client does by itself: dial, connect, lose the tunnel, dial again.
ClientTunnelStep ==
  \/ ClientMuxListening(1)
  \/ ClientRestartTimer(1)
  \/ \E t \in Tunnels : ClientSession(t)
  \/ \E t \in Tunnels : ClientRemoteSettings(t)
  \/ \E t \in Tunnels : ClientTunnelPeerClosed(t)
  \/ \E t \in Tunnels : ClientTunnelTimeout(t)
  \/ \E t \in Tunnels : ClientDialRefused(t)
  \/ \E t \in Tunnels : ClientTunnelClose(t)
  \/ \E t \in Tunnels : ClientSessionClose(t)
  \/ \E t \in Tunnels : ClientMuxClose(t)

\* What the server does by itself.
ServerTunnelStep ==
  \/ \E t \in Tunnels : ServerTunnelAccept(t)
  \/ \E t \in Tunnels : ServerSecureConnection(t)
  \/ \E t \in Tunnels : ServerMuxConnection(t)
  \/ \E t \in Tunnels : ServerRemoteSettings(t)
  \/ \E t \in Tunnels : ServerTunnelPeerClosed(t)
  \/ \E t \in Tunnels : ServerTunnelClose(t)
  \/ \E t \in Tunnels : ServerSessionClose(t)
  \/ \E t \in Tunnels : ServerMuxClose(t)

\* What follows a stop(): the listeners close once drained, the call resolves.
StopStep ==
  \/ ServerRuns /\ (\E r \in Listeners(0) : ListenerClose(0, r))
  \/ ServerRuns /\ StopResolve(0)
  \/ ListenerClose(1, Res("muxServer", 0))
  \/ StopResolve(1)

\* The one proxied connection of the lifecycle specifications.
PairStep ==
  \/ ClientStream(1)
  \/ ClientOriginConnect(1)
  \/ SockClose("client", 1)
  \/ StrmClose("client", 1)
  \/ ServerRuns /\ SockClose("server", 1)
  \/ ServerRuns /\ StrmClose("server", 1)

\* stop() was never called on endpoint ep.
NeverStopped(ep) == stopsDone[ep] = 0 /\ stopWait[ep] = << >>

\* What the event loops of the server and of the first client run by themselves.
LifeEvents ==
  \/ ServerRuns /\ ServerTunnelStep
  \/ ClientTunnelStep
  \/ PairStep
  \/ StopStep

\* The server and one client are started, stopped and started again (a start()
\* follows only a stop() that resolved; stop() may be called again while it
\* waits) under one proxied connection.  One endpoint goes through stop() while
\* the other keeps running.
NextLife ==
  \/ ServerRuns /\ ServerStart
  \/ ServerRuns /\ NeverStopped(1) /\ ServerStop
  \/ ClientStart(1)
  \/ NeverStopped(0) /\ ClientStop(1)
  \/ ServerRuns /\ nextConn = 1 /\ ProxyConnection
  \/ LifeEvents

SpecLife == Init /\ [][NextLife]_vars

\* ... and every event that is pending in an event loop is eventually handled.
SpecLifeFair == SpecLife /\ WF_vars(LifeEvents)

\* The same without the proxied connection.
RestartEvents ==
  \/ ServerRuns /\ ServerTunnelStep
  \/ ClientTunnelStep
  \/ StopStep

NextRestart ==
  \/ ServerRuns /\ ServerStart
  \/ ServerRuns /\ NeverStopped(1) /\ ServerStop
  \/ ClientStart(1)
  \/ NeverStopped(0) /\ ClientStop(1)
  \/ RestartEvents

SpecRestart == Init /\ [][NextRestart]_vars /\ WF_vars(RestartEvents)

\* One client dials a server that may start late, refuse the handshake or lose
\* the tunnel; garbage reaches the tunnel listener; a proxy connection arrives
\* meanwhile.  Nobody calls stop().
DialEvents ==
  \/ ServerTunnelStep
  \/ ClientTunnelStep
  \/ \E t \in Tunnels : ClientHandshakeFailed(t)
  \/ GarbageTlsClientError

NextDial ==
  \/ ServerStart
  \/ ClientStart(1)
  \/ GarbageConnect
  \/ \E t \in Tunnels : ServerTlsClientError(t)
  \/ \E t \in Tunnels : ClientTunnelError(t)
  \/ \E t \in Tunnels : ServerTunnelError(t)
  \/ nextConn = 1 /\ ProxyConnection
  \/ DialEvents

SpecDial == Init /\ [][NextDial]_vars /\ WF_vars(DialEvents)

\* waitUntilConnected() is called on the server and on the client at any
\* moment of a tunnel that connects, fails and reconnects.
NextWait ==
  \/ ServerStart
  \/ ClientStart(1)
  \/ ServerTunnelStep
  \/ ClientTunnelStep
  \/ \E t \in Tunnels : ClientTunnelError(t)
  \/ \E t \in Tunnels : ServerTunnelError(t)
  \/ \E ep \in {0, 1} : WaitUntilConnected(ep)

SpecWait == Init /\ [][NextWait]_vars

\* start() finds a port taken: the proxy port, the tunnel port or both.  One
\* client dials, one proxy connection arrives.
BindEvents ==
  \/ \E l \in PortListeners : ServerListenError(l)
  \/ ServerTunnelStep
  \/ ClientTunnelStep

NextBind ==
  \/ \E inUse \in SUBSET PortListeners : ServerStartInUse(inUse)
  \/ ClientStart(1)
  \/ \E t \in Tunnels : ClientTunnelError(t)
  \/ \E t \in Tunnels : ServerTunnelError(t)
  \/ nextConn = 1 /\ ProxyConnection
  \/ BindEvents

SpecBind == Init /\ [][NextBind]_vars /\ WF_vars(BindEvents)

\* One client dials a server and is connected; the tunnel socket may report its
\* idle timeout at any moment, the server's end may fail, and the client may
\* be stopped.  Every event that is pending in an event loop is eventually
\* handled.
IdleEvents ==
  \/ ServerTunnelStep
  \/ ClientTunnelStep

NextIdle ==
  \/ ServerStart
  \/ ClientStart(1)
  \/ ClientStop(1)
  \/ \E t \in Tunnels : ClientTunnelError(t)
  \/ \E t \in Tunnels : ServerTunnelError(t)
  \/ IdleEvents

SpecIdle == Init /\ [][NextIdle]_vars /\ WF_vars(IdleEvents)

\* A connected tunnel whose session fails on the server while both tunnel
\* sockets are open.  The server handles every event that is pending in its
\* event loop; the peer closes its end of the tunnel when it likes, and may
\* lose it.
ProtoEvents ==
  \/ ServerTunnelStep
  \/ \E t \in Tunnels : ServerMuxEnd(t)

NextProto ==
  \/ ServerStart
  \/ ClientStart(1)
  \/ ClientTunnelStep
  \/ \E t \in Tunnels : ClientTunnelError(t)
  \/ \E t \in Tunnels : ServerSessionError(t)
  \/ ProtoEvents

SpecProto == Init /\ [][NextProto]_vars /\ WF_vars(ProtoEvents)

\* A running server with a client that connects and reconnects and one proxy
\* connection; a listener of the server may close by itself.
NextClose ==
  \/ ServerStart
  \/ ClientStart(1)
  \/ ServerTunnelStep
  \/ ClientTunnelStep
  \/ nextConn = 1 /\ ProxyConnection
  \/ \E t \in Tunnels : ClientTunnelError(t)
  \/ \E t \in Tunnels : ServerTunnelError(t)
  \/ \E l \in PortListeners : ServerListenerClose(l)

SpecClose == Init /\ [][NextClose]_vars

\* The server is started and stopped, and started again once the stop()
\* resolved; stop() may be called before the listeners are listening.
NextListen ==
  \/ ServerStartCall
  \/ \E l \in PortListeners : ServerListenBound(l)
  \/ \E l \in AllListeners : ServerListeningEvent(l)
  \/ ServerStop
  \/ \E r \in Listeners(0) : ListenerClose(0, r)
  \/ StopResolve(0)

SpecListen == Init /\ [][NextListen]_vars

\* The timers of endpoint ep that are pending (set and neither fired nor
\* cleared).
PendingTimers(ep) ==
  {Timer("restart", t) : t \in IF ep = 0 THEN {} ELSE cRestart[ep]}
    \cup {Timer("ping", t) : t \in {u \in Tunnels :
                                     tOwner[u] = ep /\ ping["client"][u] = "timer"}}

\* The keepalive of the client's sessions.
PingStep ==
  \/ \E t \in Tunnels : ClientPingTimer(t)
  \/ \E t \in Tunnels : ClientPingAck(t)
  \/ \E t \in Tunnels : ClientPingCancel(t)

\* One client dials a running server up to MaxTunnels times and loses each
\* tunnel socket but the last before the session of its loopback socket
\* exists: a tunnel is accepted while the loopback connections of the
\* tunnels before it have not arrived yet.
NextRace ==
  \/ ServerStart
  \/ ClientStart(1)
  \/ ClientMuxListening(1)
  \/ ClientRestartTimerUpTo(1, MaxTunnels)
  \/ \E t \in Tunnels : ClientTunnelError(t)
  \/ \E t \in Tunnels : ClientTunnelClose(t)
  \/ \E t \in Tunnels : ServerTunnelAccept(t)
  \/ \E t \in Tunnels : ServerSecureConnection(t)
  \/ \E t \in Tunnels : ServerMuxConnection(t)
  \/ \E t \in Tunnels : ServerTunnelPeerClosed(t)
  \/ \E t \in Tunnels : ServerTunnelClose(t)
  \/ \E t \in Tunnels : ServerSessionClose(t)
  \/ \E t \in Tunnels : ServerMuxClose(t)

SpecRace == Init /\ [][NextRace]_vars

\* One proxied connection over a connected tunnel whose dial to the origin
\* may fail; the server handles the loss of the tunnel.
NextOrigin ==
  \/ SetupStep
  \/ nextConn = 1 /\ ProxyConnection
  \/ ClientStream(1)
  \/ ClientOriginConnect(1)
  \/ ClientOriginDialFailed(1)
  \/ \E e \in Ends : BridgeStep(e, 1)
  \/ \E e \in Ends : PeerStep(e, 1)
  \/ \E t \in Tunnels : ServerTunnelPeerClosed(t)
  \/ \E t \in Tunnels : ServerTunnelClose(t)
  \/ \E t \in Tunnels : ServerSessionClose(t)
  \/ \E t \in Tunnels : ServerMuxClose(t)

SpecOrigin == Init /\ [][NextOrigin]_vars

\* A tunnel that connects, is kept alive, fails and reconnects; the client may
\* be stopped.
NextPing ==
  \/ ServerStart
  \/ ClientStart(1)
  \/ ClientStop(1)
  \/ ServerTunnelStep
  \/ ClientTunnelStep
  \/ \E t \in Tunnels : ClientTunnelError(t)
  \/ \E t \in Tunnels : ServerTunnelError(t)
  \/ PingStep

SpecPing == Init /\ [][NextPing]_vars

\* ==================================================================== claims

\* C1: every TCP connection accepted by the proxy listener is either reset
\* (resetAndDestroy: an RST and nothing else, no stream created) because
\* activeSession is null or destroyed or the server is aborted, or else gets
\* exactly one stream, requested on the active session, and is bridged.
C1_Rejected(c) ==
  /\ sock["server"][c].forced
  /\ Destroyed(sock["server"][c])
  /\ tcpOut["server"][c] = << Rst >>
  /\ strm["server"][c].st = "none"
  /\ sessOf[c] = 0
  /\ c \notin activeStreams["server"]

C1_Accepted(c) ==
  /\ bridged["server"][c]
  /\ strm["server"][c].st # "none"
  /\ sessOf[c] # 0

C1_ProxyConnection ==
  /\ [](\A c \in Conns :
          sock["server"][c].st # "none" =>
            (C1_Rejected(c) /\ ~C1_Accepted(c)) \/ (C1_Accepted(c) /\ ~C1_Rejected(c)))
  /\ [][ProxyConnection =>
          IF sActiveSession = 0 \/ SessDestroyed(sSess[sActiveSession]) \/ sAborted
          THEN /\ sock'["server"][nextConn].forced
               /\ tcpOut'["server"][nextConn] = << Rst >>
               /\ strm' = strm
               /\ activeStreams' = activeStreams
          ELSE /\ sock'["server"][nextConn].st = "open"
               /\ strm'["server"][nextConn].st = "open"
               /\ sessOf'[nextConn] = sActiveSession
               /\ nextConn \in activeStreams'["server"]
               /\ \A d \in Conns \ {nextConn} : strm'["server"][d] = strm["server"][d]
               /\ tcpOut' = tcpOut
     ]_vars

\* A connection was bridged and a later one was reset: the later one met an
\* active session that had been destroyed.
C1_Witness ==
  /\ C1_Accepted(1)
  /\ C1_Rejected(2)
  /\ sActiveSession # 0

\* C2: in a bridged pair where neither side reports an error, a clean end on
\* one side calls end() on the other side exactly when the other side is not
\* write-ended yet (FIN is passed on as FIN / END_STREAM), and the bridge
\* forces neither side: the stream is destroyed with an error only after the
\* socket errored, the socket is resetAndDestroy'ed only after the stream
\* errored on its own.
C2_CleanEnd ==
  /\ [](\A e \in Ends, c \in Conns :
          /\ strm[e][c].forced => sock[e][c].errored
          /\ bridged[e][c] /\ sock[e][c].forced =>
               strm[e][c].errored /\ ~strm[e][c].forced
          /\ bridged[e][c] /\ ~sock[e][c].errored /\ ~strm[e][c].errored =>
               ~HasKind(tcpOut[e][c], "rst"))
  /\ [][\A e \in Ends, c \in Conns :
          /\ SockEnd(e, c) =>
               IF strm[e][c].we
               THEN strm'[e][c] = strm[e][c] /\ h2In' = h2In
               ELSE /\ strm'[e][c].we /\ ~strm'[e][c].errored
                    /\ TunnelUp(e, c) =>
                         h2In'[Other(e)][c] = Append(h2In[Other(e)][c], Fin)
          /\ StrmEnd(e, c) =>
               IF sock[e][c].we
               THEN sock'[e][c] = sock[e][c] /\ tcpOut' = tcpOut
               ELSE ~sock[e][c].errored =>
                      /\ sock'[e][c].we /\ ~sock'[e][c].forced
                      /\ sock[e][c].st = "open" =>
                           tcpOut'[e][c] = Append(tcpOut[e][c], Fin)
     ]_vars

\* Both directions ended cleanly: every socket and stream of the pair is
\* closed, none errored or forced, and each TCP peer was sent a FIN.
C2_Witness ==
  /\ \A e \in Ends :
       /\ sock[e][1].st = "closed" /\ strm[e][1].st = "closed"
       /\ ~sock[e][1].errored /\ ~strm[e][1].errored
       /\ ~sock[e][1].forced /\ ~strm[e][1].forced
       /\ HasKind(tcpOut[e][1], "fin")

\* C5: per bridged pair and direction, the chunks written to the far side are
\* at every moment a prefix of the chunks read from the near side: what the
\* socket's peer wrote, what the bridge wrote to the stream, and what the far
\* socket sent on are each a prefix of the one before.  While no end or error
\* was observed nothing is lost: what was written to the stream is what the
\* far socket sent on followed by what is still in flight, including what the
\* client's stream buffers before the origin dial has connected.
C5_NoLoss(e, c) ==
  /\ sessOf[c] # 0
  /\ sTls[sessOf[c]] = "open" /\ cTls[sessOf[c]] = "open"
  /\ strm[e][c].st = "open"
  /\ strm[Other(e)][c].st \in {"none", "open"}
  /\ sock[Other(e)][c].st \in {"none", "connecting"} \/ Writable(sock[Other(e)][c])
  /\ ~HasKind(h2In[Other(e)][c], "rst")

C5_ChunksInOrder ==
  \A e \in Ends, c \in Conns :
    /\ IsPrefix(h2Sent[e][c], UpTo(peer[e][c].n))
    /\ IsPrefix(Chunks(tcpOut[Other(e)][c]), h2Sent[e][c])
    /\ C5_NoLoss(e, c) =>
         h2Sent[e][c] = Chunks(tcpOut[Other(e)][c]) \o Chunks(h2In[Other(e)][c])

\* Every chunk of both directions arrived, the browser's after waiting in the
\* client's stream is not excluded.
C5_Witness ==
  /\ Chunks(tcpOut["client"][1]) = UpTo(MaxChunks)
  /\ Chunks(tcpOut["server"][1]) = UpTo(MaxChunks)

\* C3: when one side of a bridged pair closes with an error while the other
\* side is not destroyed, the other side is forcibly terminated; so a TCP RST
\* from the browser (on a connection it had not ended) eventually produces a
\* TCP RST at the origin, and a RST from the origin one at the browser.
C3_RstReachesFarSide ==
  \A e \in Ends :
    (bridged[e][1] /\ sock[e][1].errored /\ ~sock[e][1].re)
      ~> HasKind(tcpOut[Other(e)][1], "rst")

\* C4: half-close is preserved.  A 'data' handler copies its chunk also when
\* the opposite direction has already ended, and once the browser and the
\* origin have both written and sent their FIN (and neither resets), both TCP
\* sockets close without error, unforced, each peer having been sent all the
\* chunks of the other followed by a FIN.
C4_CleanlyClosed ==
  \A e \in Ends :
    /\ sock[e][1].st = "closed"
    /\ ~sock[e][1].errored /\ ~sock[e][1].forced
    /\ Chunks(tcpOut[e][1]) = UpTo(peer[Other(e)][1].n)
    /\ tcpOut[e][1] # << >> /\ tcpOut[e][1][Len(tcpOut[e][1])] = Fin
    /\ ~HasKind(tcpOut[e][1], "rst")

C4_HalfClose ==
  /\ [][\A e \in Ends :
          /\ SockData(e, 1) /\ sock[e][1].we /\ Writable(strm[e][1]) =>
               h2In'[Other(e)][1] = Append(h2In[Other(e)][1], Head(tcpIn[e][1]))
          /\ StrmData(e, 1) /\ strm[e][1].we /\ Writable(sock[e][1]) =>
               tcpOut'[e][1] = Append(tcpOut[e][1], Head(h2In[e][1]))
     ]_vars
  /\ (\A e \in Ends : peer[e][1].st = "ended")
       ~> (C4_CleanlyClosed \/ \E e \in Ends : peer[e][1].st = "reset")

\* The browser and the origin each wrote all their chunks and sent a FIN, and
\* both sockets closed cleanly with everything delivered.
C4_Witness ==
  /\ C4_CleanlyClosed
  /\ \A e \in Ends : peer[e][1].st = "ended" /\ peer[e][1].n = MaxChunks

\* C6: when the tunnel TLS socket of an endpoint closes, the H2 session of
\* that tunnel is destroyed with an error and so is every stream open on it;
\* when such a stream, bridged to a TCP socket that is not destroyed, emits
\* its close, that socket is resetAndDestroy'ed: its peer is sent an RST and
\* no FIN.  On the server (proxy sockets) and on the client (origin sockets).
C6_SessionGone(sess, sess2, e, t) ==
  sess[t].st = "open" =>
    /\ sess2[t].st = "destroyed" /\ sess2[t].errored
    /\ \A c \in Conns :
         sessOf[c] = t /\ strm[e][c].st = "open" =>
           strm'[e][c].st = "destroyed" /\ strm'[e][c].errored

C6_TunnelCloseResets ==
  /\ [][\A t \in Tunnels :
          /\ ServerTunnelClose(t) => C6_SessionGone(sSess, sSess', "server", t)
          /\ ClientTunnelClose(t) => C6_SessionGone(cSess, cSess', "client", t)
     ]_vars
  /\ [][\A e \in Ends, c \in Conns :
          StrmClose(e, c) /\ bridged[e][c] /\ ~Destroyed(sock[e][c]) =>
            /\ sock'[e][c].st = "destroyed" /\ sock'[e][c].forced
            /\ tcpOut'[e][c] = Append(tcpOut[e][c], Rst)
     ]_vars
  /\ [](\A e \in Ends, c \in Conns :
          bridged[e][c] /\ strm[e][c].st = "closed" /\ c \notin activeStreams[e] =>
            /\ Destroyed(sock[e][c]) /\ sock[e][c].forced
            /\ tcpOut[e][c] = << Rst >>)

\* A tunnel broke under a pair bridged at both ends: both sessions are
\* destroyed with an error and the browser and the origin were each sent an RST.
C6_Witness ==
  /\ sessOf[1] = 1
  /\ sSess[1].st = "destroyed" /\ sSess[1].errored
  /\ cSess[1].st = "destroyed" /\ cSess[1].errored
  /\ \A e \in Ends :
       /\ bridged[e][1] /\ strm[e][1].st = "closed" /\ strm[e][1].errored
       /\ sock[e][1].forced /\ tcpOut[e][1] = << Rst >>

\* C7: an error or reset on one bridged pair terminates only that pair.  The
\* steps that handle it (the socket reads the RST, the socket's close, the
\* RST_STREAM, the stream's close) leave every other connection's stream,
\* socket and activeStreams entry, the sessions and the tunnel sockets
\* unchanged; and a pair that was not reset itself stays up at both ends.
C7_OthersUntouched(c) ==
  /\ \A e \in Ends, d \in Conns \ {c} :
       /\ sock'[e][d] = sock[e][d]
       /\ strm'[e][d] = strm[e][d]
       /\ (d \in activeStreams'[e]) = (d \in activeStreams[e])
       /\ tcpOut'[e][d] = tcpOut[e][d]
       /\ h2In'[e][d] = h2In[e][d]
  /\ sSess' = sSess /\ cSess' = cSess
  /\ sTls' = sTls /\ cTls' = cTls
  /\ sActiveSession' = sActiveSession /\ sTunnelSocket' = sTunnelSocket

C7_ErrorContained ==
  /\ [][\A e \in Ends, c \in Conns :
          SockRst(e, c) \/ SockClose(e, c) \/ StrmRst(e, c) \/ StrmClose(e, c)
            => C7_OthersUntouched(c)
     ]_vars
  /\ [](\A c \in Conns :
          bridged["server"][c] /\ (\A e \in Ends : peer[e][c].st # "reset") =>
            /\ sock["server"][c].st = "open" /\ strm["server"][c].st = "open"
            /\ strm["client"][c].st \in {"none", "open"}
            /\ sock["client"][c].st \in {"none", "connecting", "open"}
            /\ tcpOut["server"][c] = << >> /\ tcpOut["client"][c] = << >>)

\* The browser reset connection 1 and the reset went through to the origin,
\* while connection 2, bridged at both ends on the same session, is open.
C7_Witness ==
  /\ sessOf[1] = sessOf[2]
  /\ sock["server"][1].errored /\ sock["server"][1].st = "closed"
  /\ tcpOut["client"][1] = << Rst >>
  /\ \A e \in Ends :
       bridged[e][2] /\ sock[e][2].st = "open" /\ strm[e][2].st = "open"

\* C8: when the server accepts a tunnel while it holds a prior one, the prior
\* TLS socket is destroyed in the accepting step; and when the remoteSettings
\* of the latest tunnel's session makes it the active session ("connected"),
\* every other tunnel's socket has emitted close ("disconnected"), its session
\* is destroyed and all the streams of that session are destroyed.
C8_PreemptBeforeConnected ==
  /\ [][\A t \in Tunnels :
          ServerSecureConnection(t) /\ sTunnelSocket # 0 =>
            sTls'[sTunnelSocket] \in {"destroyed", "closed"}
     ]_vars
  /\ [][\A t \in Tunnels :
          ServerRemoteSettings(t) /\ t = sTunnelSocket =>
            /\ sActiveSession' = t
            /\ \A p \in Tunnels \ {t} :
                 sTls[p] # "none" =>
                   /\ sTls[p] = "closed"
                   /\ sSess[p].st = "destroyed"
                   /\ \A c \in Conns :
                        sessOf[c] = p => Destroyed(strm["server"][c])
     ]_vars

\* Tunnel 1 was connected and carried connection 1; tunnel 2 preempted it and
\* is now the connected one.
C8_Witness ==
  /\ sTunnelSocket = 2 /\ sActiveSession = 2 /\ sSess[2].ready
  /\ sSess[1].ready /\ sSess[1].st = "destroyed" /\ sTls[1] = "closed"
  /\ sessOf[1] = 1 /\ Destroyed(strm["server"][1])

\* C9 (as stated): at every instant each endpoint holds at most one tunnel
\* TLS socket that is not destroyed and at most one H2 session that is not
\* destroyed, the window of a preemption included.
C9_AtMostOneEach ==
  /\ Cardinality({t \in Tunnels : sTls[t] = "open"}) <= 1
  /\ Cardinality({t \in Tunnels : sSess[t].st = "open"}) <= 1
  /\ \A k \in Clients :
       /\ Cardinality({t \in Tunnels : tOwner[t] = k /\ cTls[t] = "open"}) <= 1
       /\ Cardinality({t \in Tunnels : tOwner[t] = k /\ cSess[t].st = "open"}) <= 1

\* C9 (amended): at every instant each endpoint holds at most one tunnel TLS
\* socket that is not destroyed, and a session that is not destroyed belongs
\* to a tunnel socket whose close has not been emitted; so at most one session
\* with a socket that is not destroyed.  On the server the session of a
\* preempted tunnel stays undestroyed until its destroyed socket emits close;
\* a client holds at most one session that is not destroyed.
C9_AtMostOneLive ==
  /\ Cardinality({t \in Tunnels : sTls[t] = "open"}) <= 1
  /\ \A t \in Tunnels :
       /\ sSess[t].st = "open" => sTls[t] \in {"open", "destroyed"}
       /\ sSess[t].st = "open" /\ t # sTunnelSocket => sTls[t] = "destroyed"
       /\ cSess[t].st = "open" => cTls[t] \in {"open", "destroyed"}
  /\ \A k \in Clients :
       /\ Cardinality({t \in Tunnels : tOwner[t] = k /\ cTls[t] = "open"}) <= 1
       /\ Cardinality({t \in Tunnels : tOwner[t] = k /\ cSess[t].st = "open"}) <= 1

\* The window of a preemption: tunnel 2 was accepted, the socket of tunnel 1
\* is destroyed and has not emitted close, both sessions are not destroyed.
C9_Witness ==
  /\ sTunnelSocket = 2
  /\ sTls[1] = "destroyed" /\ sTls[2] = "open"
  /\ sSess[1].st = "open" /\ sSess[2].st = "open"

\* C10 (as stated): whenever the server's activeSession is set and not
\* destroyed, it is the session of the most recently accepted tunnel socket.
C10_ActiveIsLatest ==
  sActiveSession # 0 /\ sSess[sActiveSession].st # "destroyed" =>
    sActiveSession = sTunnelSocket

\* C10 (amended): whenever the server's activeSession is set and not
\* destroyed, it is the session of the most recently accepted tunnel socket,
\* or of a preempted tunnel whose destroyed socket has not emitted close yet.
\* Once the session of the most recently accepted tunnel is connected it is
\* the active one, and every proxy connection bridged from then on is bridged
\* on it.
C10_ActiveIsLatestOrClosing ==
  /\ [](sActiveSession # 0 /\ sSess[sActiveSession].st # "destroyed" =>
          sActiveSession = sTunnelSocket \/ sTls[sActiveSession] = "destroyed")
  /\ [](sTunnelSocket # 0 /\ sSess[sTunnelSocket].ready =>
          sActiveSession = sTunnelSocket)
  /\ [][ProxyConnection /\ sTunnelSocket # 0 /\ sSess[sTunnelSocket].ready
          /\ bridged'["server"][nextConn] =>
            sessOf'[nextConn] = sTunnelSocket
     ]_vars

\* Connection 1 was bridged on tunnel 1; tunnel 2 preempted it and connected,
\* and connection 2 is bridged on tunnel 2.
C10_Witness ==
  /\ sessOf[1] = 1 /\ sessOf[2] = 2
  /\ bridged["server"][1] /\ bridged["server"][2]
  /\ sActiveSession = 2 /\ sTunnelSocket = 2
  /\ strm["server"][2].st = "open"


\* C11: on the client, when the tunnel TLS socket closes while the client is
\* not aborted, the session of that tunnel (if there is one) is destroyed and
\* a reconnect timer is scheduled, which becomes this.restartTimeout; when a
\* reconnect timer fires, a fresh TLS socket is dialled and becomes
\* this.tunnelSocket; this holds for every attempt, and a pending timer
\* eventually fires (while the model has a tunnel left to dial).
C11_Reconnect ==
  /\ [][\A t \in Tunnels :
          ClientTunnelClose(t) /\ ~cAborted[tOwner[t]] =>
            /\ cSess'[t].st # "open"
            /\ cSess[t].st = "open" => cSess'[t].st = "destroyed" /\ cSess'[t].errored
            /\ t \in cRestart'[tOwner[t]]
            /\ cRestartTimeout'[tOwner[t]] = t
     ]_vars
  /\ [][\A k \in Clients :
          ClientRestartTimer(k) =>
            /\ cTls[nextTun] = "none" /\ cTls'[nextTun] = "open"
            /\ tOwner'[nextTun] = k
            /\ cTunnelSocket'[k] = nextTun
            /\ cRestart'[k] = {}
     ]_vars
  /\ \A k \in Clients :
       (cRestart[k] # {} /\ nextTun <= MaxDials) ~> (cRestart[k] = {})

\* The first attempt failed after its session was created, the timer fired,
\* and the second attempt is connected.
C11_Witness ==
  /\ cTls[1] = "closed" /\ SessDestroyed(cSess[1]) /\ cSess[1].errored
  /\ cRestartTimeout[1] = 1 /\ cRestart[1] = {}
  /\ cTunnelSocket[1] = 2 /\ cTls[2] = "open" /\ cSess[2].ready

\* C12: while a client is aborted (from stop() to the next start()) no
\* reconnect timer is pending and no tunnel socket is dialled: stop() cancels
\* the pending timers, no timer callback runs while aborted, and a tunnel
\* socket that closes while aborted schedules nothing.
C12_AbortedQuiet ==
  /\ [](\A k \in Clients : cAborted[k] => cRestart[k] = {})
  /\ [][\A k \in Clients :
          /\ ClientStop(k) => cAborted'[k] /\ cRestart'[k] = {}
          /\ cAborted[k] /\ cAborted'[k] =>
               /\ cTunnelSocket'[k] = cTunnelSocket[k]
               /\ \A t \in Tunnels : tOwner'[t] = k => tOwner[t] = k
          /\ ClientRestartTimer(k) => ~cAborted[k]
     ]_vars
  /\ [][\A t \in Tunnels :
          ClientTunnelClose(t) /\ cAborted[tOwner[t]] =>
            cRestart' = cRestart /\ cRestartTimeout' = cRestartTimeout
     ]_vars

\* stop() was called while the timer scheduled by the close of the first
\* tunnel socket was pending: the timer is gone, nothing was dialled since,
\* and the call has resolved.
C12_Witness ==
  /\ cAborted[1] /\ stopsDone[1] = 1
  /\ cRestartTimeout[1] = 1 /\ cRestart[1] = {}
  /\ cTunnelSocket[1] = 1 /\ cTls[1] = "closed"
  /\ nextTun = 2

\* C13: a client has at most one reconnect timer pending, and none while one
\* of its tunnel TLS sockets exists that has not emitted 'close'.
C13_OneTimerNoSocket ==
  \A k \in Clients :
    /\ Cardinality(cRestart[k]) <= 1
    /\ cRestart[k] # {} =>
         \A t \in Tunnels : tOwner[t] = k => cTls[t] \in {"none", "closed"}

\* The second attempt failed as well: its timer is the one that is pending,
\* both sockets have closed.
C13_Witness ==
  /\ cRestart[1] = {2} /\ cRestartTimeout[1] = 2
  /\ cTls[1] = "closed" /\ cTls[2] = "closed"
  /\ tOwner[1] = 1 /\ tOwner[2] = 1

\* C14: when a stop() call resolves, the closeables and the destroyables of
\* its endpoint are both empty, whatever was registered when stop() was called
\* and whatever was registered while it waited.
C14_RegistriesEmpty ==
  [][\A ep \in Eps :
       StopResolve(ep) => closeables[ep] = {} /\ destroyables[ep] = {}
  ]_vars

\* The server's stop() was called with a connected tunnel and a bridged stream
\* that had not ended; it has resolved: the stream and the session have
\* closed and the registries are empty.
C14_Witness ==
  /\ stopsDone[0] = 1 /\ stopWait[0] = << >>
  /\ bridged["server"][1]
  /\ strm["server"][1].st = "closed"
  /\ ~strm["server"][1].errored /\ ~strm["server"][1].re
  /\ sSess[1].st = "closed" /\ sSess[1].ready
  /\ closeables[0] = {} /\ destroyables[0] = {}

\* C15: every stop() call eventually resolves, whatever the state it is
\* called in, a second call made while the first is waiting included.
C15_StopResolves ==
  \A ep \in Eps : (stopWait[ep] # << >>) ~> (stopWait[ep] = << >>)

\* The endpoint has been stopped and not started again.
C16_Stopped(ep) ==
  /\ stopsDone[ep] >= 1 /\ stopWait[ep] = << >>
  /\ IF ep = 0 THEN sAborted ELSE cAborted[ep]

\* C16: a stop() call on an endpoint whose earlier stop() has resolved (and
\* that was not started again) waits for nothing, so it resolves; it calls
\* close() or destroy() on nothing and leaves the registries, activeSession,
\* activeStreams and every socket, stream and session as they were.
C16_SecondStopNoOp ==
  /\ [][ServerStop /\ C16_Stopped(0) =>
          /\ stopWait'[0] = << {} >>
          /\ closing' = closing
          /\ closeables' = closeables /\ destroyables' = destroyables
          /\ sActiveSession' = sActiveSession /\ activeStreams' = activeStreams
          /\ sTls' = sTls /\ sSess' = sSess /\ sMux' = sMux
          /\ sock' = sock /\ strm' = strm
          /\ sAborted'
     ]_vars
  /\ [][\A k \in Clients :
          ClientStop(k) /\ C16_Stopped(k) =>
            /\ stopWait'[k] = << {} >>
            /\ closing' = closing
            /\ closeables' = closeables /\ destroyables' = destroyables
            /\ activeStreams' = activeStreams
            /\ cTls' = cTls /\ cSess' = cSess /\ cMux' = cMux
            /\ sock' = sock /\ strm' = strm
            /\ cRestart' = cRestart /\ cAborted'[k]
     ]_vars

\* After a stop() of the connected server has resolved, another stop() call
\* is made: it waits for nothing, and activeSession is still the closed session.
C16_Witness ==
  /\ stopsDone[0] = 1 /\ starts[0] = 1
  /\ stopWait[0] = << {} >>
  /\ sAborted /\ closing[0] = {}
  /\ sActiveSession = 1 /\ sSess[1].st = "closed"
  /\ closeables[0] = {} /\ destroyables[0] = {}

\* The tunnel t is connected at both ends and is the server's active session.
C17_Connected(t) ==
  /\ sActiveSession = t /\ sSess[t].st = "open" /\ sSess[t].ready
  /\ cSess[t].st = "open" /\ cSess[t].ready

\* The client lost the socket of attempt t.
C17_Lost(t) == cTls[t] \in {"destroyed", "closed"}

\* C17: start() after a stop() that resolved brings the endpoint back up.  A
\* restarted server is not aborted, has its three listeners registered and
\* listening, and a tunnel that the running client dials is then accepted and
\* becomes connected; a restarted client is not aborted, dials again once its
\* mux server listens, and that tunnel becomes connected when the server
\* listens (unless stop() is called again first, or the client loses the
\* socket of that attempt, after which it dials again).
C17_Restart ==
  /\ [][/\ ServerStart =>
             sListening' /\ ~sAborted' /\ closeables'[0] = Listeners(0)
        /\ \A k \in Clients :
             ClientStart(k) => ~cAborted'[k] /\ closeables'[k] = Listeners(k)
     ]_vars
  /\ [](starts[0] = 2 /\ sListening => MuxServerAddress)
  /\ \A t \in DialledTunnels :
       (starts[0] = 2 /\ sListening /\ cTls[t] = "open" /\ sTls[t] = "none")
         ~> (C17_Connected(t) \/ sAborted \/ C17_Lost(t))
  /\ (starts[1] = 2 /\ cPhase[1] = "starting" /\ nextTun <= MaxDials)
       ~> (cPhase[1] = "running" \/ cAborted[1])
  /\ \A t \in DialledTunnels :
       (starts[1] = 2 /\ tOwner[t] = 1 /\ cTls[t] = "open" /\ sListening)
         ~> (C17_Connected(t) \/ cAborted[1] \/ C17_Lost(t))
  /\ [][\A t \in Tunnels :
          C17_Lost(t)' /\ ~C17_Lost(t) =>
            \/ ClientTunnelTimeout(t)
            \/ ClientDialRefused(t)
            \/ cAborted'[tOwner[t]]
            \/ sTls[t] \in {"ended", "destroyed", "closed"}
     ]_vars

\* The server was stopped and started again while the client kept running:
\* the tunnel the client dialled after the stop is connected.
C17_Witness ==
  /\ starts[0] = 2 /\ stopsDone[0] >= 1 /\ sListening
  /\ starts[1] = 1 /\ NeverStopped(1)
  /\ cTls[1] = "closed"
  /\ C17_Connected(2)

\* The tunnel of endpoint ep is connected: it emitted 'connected' for a
\* session that is not destroyed.
C18_Connected(ep) ==
  IF ep = 0
  THEN sActiveSession # 0 /\ sSess[sActiveSession].ready
       /\ ~SessDestroyed(sSess[sActiveSession])
  ELSE \E t \in Tunnels :
         tOwner[t] = ep /\ cSess[t].ready /\ ~SessDestroyed(cSess[t])

\* C18: waitUntilConnected() called on an endpoint, server or client, whose
\* tunnel is connected resolves at once; called while not connected it
\* resolves at the next 'connected' event of that endpoint.
C18_ResolvesWhenConnected ==
  /\ [][\A ep \in {0, 1} :
          WaitUntilConnected(ep) =>
            waiter'[ep] = IF C18_Connected(ep) THEN "resolved" ELSE "waiting"
     ]_vars
  /\ [][\A t \in Tunnels :
          /\ ServerRemoteSettings(t) /\ waiter[0] = "waiting" =>
               waiter'[0] = "resolved"
          /\ ClientRemoteSettings(t) /\ waiter[tOwner[t]] = "waiting" =>
               waiter'[tOwner[t]] = "resolved"
     ]_vars

\* C19: a tunnel connection whose TLS handshake fails on the server (an
\* untrusted certificate, or garbage instead of TLS) never gets a session,
\* never becomes tunnelSocket or activeSession and never emits 'connected';
\* the failure leaves the listener listening, a proxy connection that arrives
\* while there is no live active session is reset, and a client that dials
\* an attempt after the failure reaches 'connected' unless that attempt is
\* lost in its turn.
C19_Failure == garbage.n > 0 \/ \E t \in Tunnels : sTls[t] = "failed"

C19_HandshakeFailure ==
  /\ [](\A t \in Tunnels :
          sTls[t] = "failed" =>
            /\ sSess[t].st = "none"
            /\ sMux[t] = "none"
            /\ sActiveSession # t
            /\ sTunnelSocket # t)
  /\ [][\A t \in Tunnels :
          ServerTlsClientError(t) =>
            /\ sListening' = sListening
            /\ UNCHANGED << sActiveSession, sTunnelSocket, sSess, waiter >>
     ]_vars
  /\ [][GarbageTlsClientError =>
          /\ sListening' = sListening
          /\ UNCHANGED << sActiveSession, sTunnelSocket, sSess, sTls, waiter >>
     ]_vars
  /\ [](C19_Failure => sListening)
  /\ [][\A t \in Tunnels :
          ServerRemoteSettings(t) => sTls[t] # "failed" /\ sTls'[t] # "failed"
     ]_vars
  /\ [][ProxyConnection /\ C19_Failure /\
          (sActiveSession = 0 \/ SessDestroyed(sSess[sActiveSession])) =>
            /\ sock'["server"][nextConn].forced
            /\ tcpOut'["server"][nextConn] = << Rst >>
            /\ strm' = strm
     ]_vars
  /\ \A t \in DialledTunnels :
       (C19_Failure /\ sListening /\ cTls[t] = "open" /\ sTls[t] = "none")
         ~> \/ sSess[t].ready /\ cSess[t].ready /\ sActiveSession = t
            \/ cTls[t] # "open"
            \/ sTls[t] \in {"failed", "destroyed", "closed"}

\* The first attempt's handshake failed and garbage was dropped, a proxy
\* connection was reset meanwhile, and the second attempt is connected.
C19_Witness ==
  /\ sTls[1] = "failed" /\ sSess[1].st = "none"
  /\ garbage.n = 1 /\ ~garbage.open
  /\ C1_Rejected(1)
  /\ sListening
  /\ sTls[2] = "open" /\ sSess[2].ready /\ cSess[2].ready
  /\ sActiveSession = 2


\* C20 as stated: an attempt of the client whose TLS handshake failed (the
\* server never completed it and the client's socket is gone) never had an
\* HTTP/2 session on the client.
C20_Failed(t) ==
  /\ cTls[t] \in {"destroyed", "closed"}
  /\ sTls[t] \in {"none", "failed"}

C20_NeverASession ==
  \A t \in Tunnels : C20_Failed(t) => cSess[t].st = "none"

\* C20, amended: the session object that muxServer hands out for the loopback
\* socket of an attempt never receives remoteSettings unless the server
\* completed that attempt's handshake, so a client whose handshakes fail never
\* emits 'connected'; after each failed attempt a re-dial is scheduled and the
\* next attempt is dialled; an attempt dialled at a listening server after a
\* failed one ends with the client connected unless that attempt is refused
\* or lost.
C20_KeepsDialling ==
  /\ [](\A t \in Tunnels :
          cSess[t].ready => sTls[t] \in {"open", "destroyed", "closed"})
  /\ [][\A t \in Tunnels :
          ClientRemoteSettings(t) =>
            /\ sTls[t] \notin {"none", "failed"}
            /\ sSess[t].st # "none"
     ]_vars
  /\ [](\A t \in Tunnels : C20_Failed(t) => ~cSess[t].ready)
  /\ [][\A t \in Tunnels :
          ClientTunnelClose(t) /\ sTls[t] \in {"none", "failed"} =>
            /\ ~cSess'[t].ready
            /\ cSess'[t].st # "open"
            /\ t \in cRestart'[tOwner[t]]
     ]_vars
  /\ \A t \in 1..(MaxDials - 1) :
       C20_Failed(t) ~> (cTls[t + 1] # "none")
  /\ \A t \in 2..MaxDials :
       (C20_Failed(t - 1) /\ sListening /\ cTls[t] = "open" /\ sTls[t] = "none")
         ~> \/ cSess[t].ready
            \/ cTls[t] # "open"
            \/ sTls[t] \in {"failed", "destroyed", "closed"}

\* The first attempt found nobody listening; it had a session, which never
\* became ready and was destroyed; the second attempt, dialled by the timer
\* after the server started, is connected.
C20_Witness ==
  /\ C20_Failed(1) /\ sTls[1] = "none"
  /\ SessDestroyed(cSess[1]) /\ ~cSess[1].ready
  /\ cRestartTimeout[1] = 1
  /\ sListening
  /\ cTls[2] = "open" /\ sTls[2] = "open" /\ cSess[2].ready


\* C21: when the bind of the proxy listener or of the tunnel listener fails
\* at start(), the failure is terminal: once the 'error' was reported the
\* server is aborted and none of its listeners accepts connections, and it
\* never has a tunnel while a listener is missing.
C21_BindFailureTerminal ==
  /\ [][\A l \in PortListeners :
          ServerListenError(l) => sAborted' /\ ~sListening']_vars
  /\ []((\E l \in PortListeners : sBind[l] = "error") =>
          ~ProxyListening /\ ~TunnelListening /\ sActiveSession = 0)


\* C22: while an endpoint is aborted nothing is added to its closeables, its
\* destroyables or its timers; a tunnel TLS connection whose handshake
\* completes after stop() began is destroyed at once, is not registered and
\* does not become tunnelSocket, and no session becomes the active session.
C22_NoLateRegistration ==
  /\ [][sAborted /\ sAborted' =>
          /\ closeables'[0] \subseteq closeables[0]
          /\ destroyables'[0] \subseteq destroyables[0]
          /\ sActiveSession' = sActiveSession
     ]_vars
  /\ [][\A k \in Clients :
          cAborted[k] /\ cAborted'[k] =>
            /\ closeables'[k] \subseteq closeables[k]
            /\ destroyables'[k] \subseteq destroyables[k]
            /\ cRestart'[k] \subseteq cRestart[k]
     ]_vars
  /\ [][\A t \in Tunnels :
          ServerSecureConnection(t) /\ sAborted =>
            /\ sTls'[t] \in {"destroyed", "closed"}
            /\ sTunnelSocket' = sTunnelSocket
     ]_vars


\* C23: stop() of a connected endpoint logs "stopping" while its tunnel
\* socket has not yet emitted 'close' (its "disconnected" is still to come);
\* every stop() call in progress waits for that socket, so "disconnected" is
\* logged before "stopped"; "stopped" is logged only when every resource that
\* was registered has emitted 'close', the tunnel sockets included; and the
\* peer's end of the tunnel eventually closes, which logs "disconnected" there.
C23_Up(t) == cSess[t].ready /\ sSess[t].ready

C23_StopLogOrder ==
  /\ [][\A k \in Clients : \A t \in Tunnels :
          ClientStop(k) /\ tOwner[t] = k /\ cTls[t] = "open" /\ C23_Up(t) =>
            /\ cTls'[t] = "destroyed"
            /\ Res("tls", t) \in stopWait'[k][Len(stopWait'[k])]
     ]_vars
  /\ [][\A t \in Tunnels :
          ServerStop /\ sTls[t] = "open" /\ C23_Up(t) =>
            /\ sTls'[t] = "destroyed"
            /\ Res("tls", t) \in stopWait'[0][Len(stopWait'[0])]
     ]_vars
  /\ [][\A t \in Tunnels :
          /\ ClientTunnelClose(t) /\ cAborted[tOwner[t]] =>
                /\ stopWait[tOwner[t]] # << >>
                /\ \A i \in DOMAIN stopWait[tOwner[t]] :
                     Res("tls", t) \in stopWait[tOwner[t]][i]
          /\ ServerTunnelClose(t) /\ sAborted =>
                /\ stopWait[0] # << >>
                /\ \A i \in DOMAIN stopWait[0] : Res("tls", t) \in stopWait[0][i]
     ]_vars
  /\ [][\A ep \in {0, 1} :
          StopResolve(ep) =>
            /\ closeables[ep] = {} /\ destroyables[ep] = {}
            /\ \A t \in Tunnels :
                 IF ep = 0 THEN sTls[t] \in {"none", "failed", "closed"}
                 ELSE tOwner[t] = ep => cTls[t] = "closed"
     ]_vars
  /\ \A t \in DialledTunnels :
       /\ (C23_Up(t) /\ cAborted[1] /\ cTls[t] # "open") ~> (sTls[t] = "closed")
       /\ (C23_Up(t) /\ sAborted /\ sTls[t] # "open") ~> (cTls[t] = "closed")

\* The connected client was stopped: its socket closed before the call
\* resolved, and the server's end closed after it.
C23_Witness ==
  /\ C23_Up(1)
  /\ cAborted[1] /\ stopsDone[1] = 1 /\ stopWait[1] = << >>
  /\ cTls[1] = "closed" /\ sTls[1] = "closed"
  /\ ~sAborted


\* C24: "recv RST" is logged for a stream only when the stream reported an
\* error while its socket had not errored.  The endpoint whose socket was
\* reset by its local peer logs "error" and "send RST" once each, never
\* "recv RST", and then "closed"; the far endpoint, unless its own socket was
\* reset too, never logs "send RST" and, once it has the stream, logs
\* "recv RST" and "closed".
C24_Reset(e, c) == bridged[e][c] /\ sock[e][c].errored

C24_RstLines ==
  /\ [](\A e \in Ends, c \in Conns :
          /\ logged[e][c].recvRst > 0 =>
                strm[e][c].errored /\ ~sock[e][c].errored
          /\ logged[e][c].sendRst > 0 => sock[e][c].errored
          /\ C24_Reset(e, c) =>
                /\ logged[e][c].err = 1 /\ logged[e][c].sendRst = 1
                /\ logged[e][c].recvRst = 0
                /\ ~sock[Other(e)][c].errored => logged[Other(e)][c].sendRst = 0)
  /\ \A e \in Ends :
       C24_Reset(e, 1) ~> (logged[e][1].closed = 1)
  /\ \A e \in Ends :
       (C24_Reset(e, 1) /\ ~sock[e][1].re /\ strm[Other(e)][1].st # "none")
         ~> \/ logged[Other(e)][1].recvRst = 1 /\ logged[Other(e)][1].closed = 1
            \/ sock[Other(e)][1].errored


\* C25: for every bridged stream of an endpoint "closed" is logged exactly
\* once, after the stream is gone, and no line of that stream follows it.  A
\* stream that closed without an error (the pair ended by FIN on both sides)
\* has logged exactly one "send FIN" and one "recv FIN" and no "error",
\* "send RST" or "recv RST"; and "recv FIN" is logged at an endpoint only
\* after the other endpoint logged "send FIN".
C25_CleanlyClosed(e, c) ==
  /\ logged[e][c].closed > 0
  /\ ~strm[e][c].errored /\ ~sock[e][c].errored
  /\ ~strm[e][c].forced /\ ~sock[e][c].forced
  /\ strm[e][c].re /\ sock[e][c].re

C25_ClosedLast ==
  /\ [](\A e \in Ends, c \in Conns :
          /\ logged[e][c].closed <= 1
          /\ ~logged[e][c].late
          /\ C25_CleanlyClosed(e, c) =>
                /\ logged[e][c].sendFin = 1 /\ logged[e][c].recvFin = 1
                /\ logged[e][c].sendRst = 0 /\ logged[e][c].recvRst = 0
                /\ logged[e][c].err = 0)
  /\ [][\A e \in Ends, c \in Conns :
          StrmEnd(e, c) =>
            /\ logged[Other(e)][c].sendFin = 1
            /\ logged'[e][c].recvFin = logged[e][c].recvFin + 1
     ]_vars
  /\ \A e \in Ends :
       (bridged[e][1] /\ Destroyed(strm[e][1])) ~> (logged[e][1].closed = 1)


\* C26: an entry of activeStreams is a bridged pair (added by addStream), and
\* once the socket or the stream of an entry has closed the entry is
\* eventually removed; so activeStreams is empty when every bridged pair has
\* both its socket and its stream closed.
C26_EntriesRemoved ==
  /\ [](\A e \in Ends, c \in Conns :
          c \in activeStreams[e] =>
            bridged[e][c] /\ sock[e][c].st # "none" /\ strm[e][c].st # "none")
  /\ [][\A e \in Ends, c \in Conns :
          c \in activeStreams'[e] /\ c \notin activeStreams[e] =>
            ~bridged[e][c] /\ bridged'[e][c]
     ]_vars
  /\ \A e \in Ends :
       (1 \in activeStreams[e] /\
          (sock[e][1].st = "closed" \/ strm[e][1].st = "closed"))
         ~> (1 \notin activeStreams[e])


\* C27: the stream ids an endpoint issues are fresh: two bridges of one
\* endpoint never received the same streamId (so two streams that are active
\* at the same time never share one).
C27_FreshIds ==
  \A e \in Ends, c1 \in Conns, c2 \in Conns :
    c1 # c2 /\ streamId[e][c1] # -1 /\ streamId[e][c2] # -1 =>
      streamId[e][c1] # streamId[e][c2]


\* C28: after a session's remoteSettings the endpoint, server as well as
\* client, runs a keepalive loop: the first timer is armed by remoteSettings,
\* a PING is sent only when the timer fires and the session is not destroyed,
\* the next timer is armed only by the acknowledgement of that PING on a
\* session that is not destroyed, and a client has at most one timer armed.
C28_SessionOf(e, t) == IF e = "server" THEN sSess[t] ELSE cSess[t]

C28_RemoteSettings(e, t) ==
  IF e = "server" THEN ServerRemoteSettings(t) ELSE ClientRemoteSettings(t)

C28_Keepalive ==
  /\ [][\A e \in Ends, t \in Tunnels :
          C28_RemoteSettings(e, t) => ping'[e][t] = "timer"]_vars
  /\ [][\A e \in Ends, t \in Tunnels :
          ping'[e][t] = "sent" /\ ping[e][t] # "sent" =>
            ping[e][t] = "timer" /\ ~SessDestroyed(C28_SessionOf(e, t))]_vars
  /\ [][\A e \in Ends, t \in Tunnels :
          ping'[e][t] = "timer" /\ ping[e][t] # "timer" =>
            \/ C28_RemoteSettings(e, t)
            \/ ping[e][t] = "sent" /\ ~SessDestroyed(C28_SessionOf(e, t))]_vars
  /\ [](\A e \in Ends, k \in Clients :
          Cardinality({t \in Tunnels : tOwner[t] = k /\ ping[e][t] = "timer"}) <= 1)


\* C29: when the client's tunnel TLS socket fires its idle timeout it is
\* destroyed (and stays registered until its 'close'); a destroyed tunnel
\* socket eventually emits 'close'; its 'close' destroys the session of the
\* tunnel with an error and destroys the mux socket, and schedules a reconnect
\* timer exactly when the client is not aborted.
C29_IdleTimeout ==
  /\ [][\A t \in Tunnels :
          ClientTunnelError(t) =>
            /\ cTls'[t] = "destroyed"
            /\ Res("tls", t) \in destroyables'[tOwner[t]]
     ]_vars
  /\ [][\A t \in Tunnels :
          ClientTunnelClose(t) =>
            /\ cTls'[t] = "closed"
            /\ cMux'[t] # "open"
            /\ cSess[t].st = "open" => SessDestroyed(cSess'[t]) /\ cSess'[t].errored
            /\ cSess[t].st = "none" => cSess'[t].st = "none"
            /\ (t \in cRestart'[tOwner[t]]) = ~cAborted[tOwner[t]]
     ]_vars
  /\ [](\A t \in Tunnels : cTls[t] = "closed" => cSess[t].st # "open")
  /\ \A t \in DialledTunnels : (cTls[t] = "destroyed") ~> (cTls[t] = "closed")

\* The connected tunnel timed out while the server's end was still open: the
\* socket closed, the session is destroyed with an error and the reconnect
\* timer is pending.
C29_Witness ==
  /\ cTls[1] = "closed" /\ sTls[1] = "open"
  /\ cSess[1].ready /\ SessDestroyed(cSess[1]) /\ cSess[1].errored
  /\ ~cAborted[1] /\ cRestart[1] = {1} /\ cRestartTimeout[1] = 1


\* C30: on the server, once the session of a tunnel has closed, the tunnel
\* socket of that tunnel is destroyed: if it is still there when the session
\* emits 'close', its destruction follows.
C30_SessionCloseDestroysSocket ==
  \A t \in Tunnels :
    (sSess[t].st = "closed" /\ TlsLive(sTls[t]))
      ~> (sTls[t] \in {"destroyed", "closed"})


\* C31: when the proxy listener or the tunnel listener of a running server
\* closes without stop(), the server stops: it is aborted, its other
\* listeners are closing or closed, and none of its tunnel sockets, sessions
\* and proxied sockets is left open.
C31_ListenerCloseFatal ==
  [][\A l \in PortListeners :
       ServerListenerClose(l) =>
         /\ sAborted'
         /\ closeables'[0] \subseteq closing'[0]
         /\ \A t \in Tunnels : sTls'[t] # "open" /\ sSess'[t].st # "open"
         /\ \A c \in Conns : sock'["server"][c].st # "open"
    ]_vars


\* C32: the server logs "listening" at most once after each start(), and
\* only in a step after which the mux, the proxy and the tunnel listener are
\* all listening; also when the start() follows a stop() that was called
\* before the listeners of the previous start() were listening.
C32_ListeningOnce ==
  /\ [](listeningLines <= 1)
  /\ [][listeningLines' > listeningLines => IsListening(sListen')]_vars


\* C33: every entry of the timers registry is a timer that is pending (a
\* timer that fired or was cleared is not in it), and the registry of an
\* endpoint is empty when no stop() of it is in progress after one resolved
\* and before the next start().
C33_TimersPending ==
  /\ \A ep \in Eps : timeouts[ep] \subseteq PendingTimers(ep)
  /\ \A k \in Clients :
       stopsDone[k] > 0 /\ stopWait[k] = << >> /\ cPhase[k] = "stopped" =>
         timeouts[k] = {}


\* C34: every loopback socket that the mux listener accepted is piped to
\* exactly one tunnel socket, the one whose 'secureConnection' dialled it;
\* in particular the tunnel of every accepted loopback socket has it, also
\* when a second tunnel was accepted before the loopback connection of the
\* first one arrived.
C34_OnePipePerLoopback ==
  \A t \in Tunnels : sMux[t] # "none" => sPiped[t] = {t}


\* C35: on the client, activeStreams never contains a stream that has
\* already emitted 'close', and once a stream has closed before the dial to
\* the origin made for it has connected, the origin socket of that stream is
\* no longer connecting or open.
C35_NoClosedStreamEntry ==
  \A c \in Conns :
    /\ c \in activeStreams["client"] => strm["client"][c].st # "closed"
    /\ strm["client"][c].st = "closed" /\ ~bridged["client"][c] =>
         ~Alive(sock["client"][c])


\* C36: when the dial to the origin fails on the client, the stream that
\* triggered it is destroyed with an error (so that the server resets the
\* public-side connection), and the client keeps running with its tunnel
\* socket and its session as they were.
C36_DialFailureContained ==
  [][\A c \in Conns :
       ClientOriginDialFailed(c) =>
         /\ strm'["client"][c].st = "destroyed" /\ strm'["client"][c].errored
         /\ cPhase' = cPhase
         /\ cTls' = cTls
         /\ cSess' = cSess
    ]_vars


\* C37: the close of a tunnel socket that a later tunnel preempted destroys
\* the session that was created for it and leaves the loopback socket that
\* was dialled for it not open, and touches nothing of another tunnel: every
\* other session and every other loopback socket is left as it was, and
\* activeSession and tunnelSocket are not changed, whether the session of
\* the later tunnel has received remoteSettings or not.
C37_Preempted(t) == sTunnelSocket # 0 /\ sTunnelSocket # t

C37_PreemptedCloseContained ==
  [][\A t \in Tunnels :
       ServerTunnelClose(t) /\ C37_Preempted(t) =>
         /\ sSess[t].st = "open" => SessDestroyed(sSess'[t]) /\ sSess'[t].errored
         /\ sMux'[t] # "open"
         /\ \A u \in Tunnels \ {t} : sSess'[u] = sSess[u] /\ sMux'[u] = sMux[u]
         /\ sActiveSession' = sActiveSession
         /\ sTunnelSocket' = sTunnelSocket
    ]_vars


\* C38: a 'data' handler of the bridge writes its chunk only to a side that
\* is writable: open, and end() not yet called on it.
C38_WritesOnlyWhileWritable ==
  [][\A e \in Ends, c \in Conns :
       /\ SockData(e, c) => Writable(strm[e][c])
       /\ StrmData(e, c) => Writable(sock[e][c])
    ]_vars

====
